---- MODULE Spec2Model ----
(***************************************************************************)
(* Model of grinev/opencode-telegram-bot: the outbound ToolMessageBatcher   *)
(* (src/summary/tool-message-batcher.ts).                                   *)
(*                                                                         *)
(* A text is a sequence of one-character strings.  A pending timer is the   *)
(* number of milliseconds left until it is due.  A session's task chain     *)
(* (sessionTasks) is the sequence of the tasks chained by enqueueTask that  *)
(* have not settled yet.                                                    *)
(***************************************************************************)
EXTENDS Integers, Sequences, FiniteSets, TLC

(* ------------------------------------------------------------------ *)
(* Bounds of the model                                                 *)
(* ------------------------------------------------------------------ *)
\* accepted enqueue / enqueueFile calls in one behaviour, with two sessions
MaxItems == 2
\* accepted enqueue / enqueueFile calls in one behaviour, with one session
MaxSessionItems == 3
\* accepted enqueue calls in one behaviour, with texts of thousands of characters
MaxLongItems == 2
\* text entries handed to one packMessages call
MaxPackEntries == 3
\* newlines in one text handed to splitLongText
MaxSplitNewlines == 2
\* the clock of the interaction manager runs from 0 to MaxNow
MaxNow == 3

(* ------------------------------------------------------------------ *)
(* Program constants                                                   *)
(* ------------------------------------------------------------------ *)
DEFAULT_INTERVAL_SECONDS == 5
TELEGRAM_MESSAGE_MAX_LENGTH == 4096

(* ------------------------------------------------------------------ *)
(* Inputs                                                              *)
(* ------------------------------------------------------------------ *)
Sessions == {"s1", "s2"}
\* (the enqueue operations are also handed "", the missing session id they reject)
\* the k-th accepted item carries the k-th tag, so items are told apart
Tags == <<"a", "b", "c", "d", "e", "f", "g", "h">>
Whitespace == {" ", "\n", "\t", "\r"}
\* interval settings handed to the constructor and to setIntervalSeconds
IntervalInputs == {0, 1, 2}
NoTimer == -1

Max(S) == CHOOSE x \in S : \A y \in S : y <= x
Rep(c, n) == [i \in 1..n |-> c] \o <<>>

(* ------------------------------------------------------------------ *)
(* Pure functions                                                      *)
(* ------------------------------------------------------------------ *)
normalizeIntervalSeconds(value) ==
  IF value < 0 THEN DEFAULT_INTERVAL_SECONDS ELSE value

\* String.prototype.trim
trim(t) ==
  LET first == CHOOSE i \in 1..(Len(t) + 1) :
                 /\ i = Len(t) + 1 \/ t[i] \notin Whitespace
                 /\ \A j \in 1..(i - 1) : t[j] \in Whitespace
      cut == CHOOSE k \in 0..Len(t) :
               /\ k = Len(t) \/ t[Len(t) - k] \notin Whitespace
               /\ \A j \in (Len(t) - k + 1)..Len(t) : t[j] \in Whitespace
  IN SubSeq(t, first, Len(t) - cut)

\* remaining.replace(/^\n+/, "")
RECURSIVE stripLeadingNewlines(_)
stripLeadingNewlines(t) ==
  IF t # <<>> /\ Head(t) = "\n" THEN stripLeadingNewlines(Tail(t)) ELSE t

\* remaining.lastIndexOf("\n", limit): the 0-based index, -1 when there is none
lastIndexOfNewline(t, from) ==
  LET hits == {i \in 0..from : i < Len(t) /\ t[i + 1] = "\n"}
  IN IF hits = {} THEN -1 ELSE Max(hits)

cutAtLimit(remaining, limit) == limit

splitIndexOf(remaining, limit) ==
  LET splitIndex == lastIndexOfNewline(remaining, limit)
  IN IF splitIndex <= 0 \/ splitIndex < (limit \div 2) THEN limit ELSE splitIndex

RECURSIVE splitLoop(_, _)
splitLoop(remaining, limit) ==
  IF Len(remaining) > limit
    THEN LET splitIndex == splitIndexOf(remaining, limit)
         IN <<SubSeq(remaining, 1, splitIndex)>>
            \o splitLoop(stripLeadingNewlines(
                           SubSeq(remaining, splitIndex + 1, Len(remaining))), limit)
    ELSE IF Len(remaining) > 0 THEN <<remaining>> ELSE <<>>

splitLongText(text, limit) ==
  IF Len(text) <= limit THEN <<text>> ELSE splitLoop(text, limit)

RECURSIVE flatMapSplit(_)
flatMapSplit(messages) ==
  IF messages = <<>> THEN <<>>
  ELSE splitLongText(Head(messages), TELEGRAM_MESSAGE_MAX_LENGTH)
       \o flatMapSplit(Tail(messages))

joinSingleNewline(current, entry) == current \o <<"\n">> \o entry

\* `${current}\n\n${entry}`
candidateOf(current, entry) == current \o <<"\n", "\n">> \o entry

\* the greedy loop of packMessages over the normalized entries
RECURSIVE packLoop(_, _, _)
packLoop(entries, result, current) ==
  IF entries = <<>>
    THEN IF current # <<>> THEN Append(result, current) ELSE result
    ELSE LET entry == Head(entries)
             candidate == candidateOf(current, entry)
         IN IF current = <<>>
              THEN packLoop(Tail(entries), result, entry)
              ELSE IF Len(candidate) <= TELEGRAM_MESSAGE_MAX_LENGTH
                THEN packLoop(Tail(entries), result, candidate)
                ELSE packLoop(Tail(entries), Append(result, current), entry)

packMessages(messages) ==
  LET normalizedEntries == SelectSeq(flatMapSplit(messages), LAMBDA e : Len(e) > 0)
  IN IF normalizedEntries = <<>> THEN <<>> ELSE packLoop(normalizedEntries, <<>>, <<>>)

NoFile == [filename |-> ""]
TextItem(text) == [kind |-> "text", text |-> text, fileData |-> NoFile]
FileItem(fileData) == [kind |-> "file", text |-> <<>>, fileData |-> fileData]

RECURSIVE toTextItems(_)
toTextItems(texts) ==
  IF texts = <<>> THEN <<>> ELSE <<TextItem(Head(texts))>> \o toTextItems(Tail(texts))

\* flushTextBuffer: the packed texts of the buffer, appended to the result
flushTextBuffer(result, textBuffer) ==
  IF textBuffer = <<>> THEN result ELSE result \o toTextItems(packMessages(textBuffer))

RECURSIVE buildLoop(_, _, _)
buildLoop(entries, result, textBuffer) ==
  IF entries = <<>>
    THEN flushTextBuffer(result, textBuffer)
    ELSE LET entry == Head(entries)
         IN IF entry.kind = "text"
              THEN buildLoop(Tail(entries), result, Append(textBuffer, entry.text))
              ELSE buildLoop(Tail(entries),
                             Append(flushTextBuffer(result, textBuffer),
                                    FileItem(entry.fileData)),
                             <<>>)

buildFlushItems(entries) == buildLoop(entries, <<>>, <<>>)

(* ------------------------------------------------------------------ *)
(* State                                                               *)
(* ------------------------------------------------------------------ *)
VARIABLES
  intervalSeconds,  \* ToolMessageBatcher.intervalSeconds
  queues,           \* queues: session -> its queued items (<<>>: no entry)
  queueKeys,        \* the insertion order of the keys of the queues Map
  timers,           \* timers: session -> the milliseconds until its timer is due, or NoTimer
  sessionTasks,     \* sessionTasks: session -> the tasks chained and not yet settled
  generation,       \* ToolMessageBatcher.generation
  sent,             \* every sendText / sendFile call made so far, in call order
  accepted,         \* the number of items enqueue / enqueueFile accepted so far
  cleared,          \* the tags of the items clearSession / clearAll deleted from a queue
  lastClear,        \* the scope of the latest clearSession / clearAll: a session, or "all"
  dropped,          \* the items of the sends dropped because the generation had advanced
  intervalChanged,  \* whether setIntervalSeconds changed the interval so far
  env,              \* the environment: the sessions it uses and the items it enqueues
  state,            \* InteractionManager.state
  now,              \* Date.now()
  call,             \* the latest call observed from outside: its input and what it returned
  heap,             \* the objects the manager and its callers both hold a reference to
  currentSessionId,     \* SummaryAggregator.currentSessionId
  currentMessageParts,  \* currentMessageParts: message id -> its text fragments (absent: no entry)
  pendingParts,         \* pendingParts: message id -> the fragments that came before the role
  messageInfos,         \* the messages Map: message id -> its role (absent: no entry)
  messageCount,         \* SummaryAggregator.messageCount
  lastUpdated,          \* SummaryAggregator.lastUpdated
  processedToolStates,  \* the "completed-<callID>" markers, as the set of their call ids
  typingTimer,          \* the typing interval: whether the field holds a timer, and
                        \* how many interval timers run
  partHashes,           \* partHashes: message id -> the hashes of its text fragments
  immediates,           \* the callbacks handed to setImmediate and not yet run, in order
  history               \* what arrived in the session so far: texts, message id -> the texts
                        \* of its text part events since its hashes are kept; tools, the call
                        \* ids of the completed tool parts; completed, the ids of the
                        \* messages whose completion callback was called

batcherVars == <<intervalSeconds, queues, queueKeys, timers, sessionTasks, generation,
                 sent, accepted, cleared, lastClear, dropped, intervalChanged>>

interactionVars == <<state, now, call>>

aggregatorVars == <<currentSessionId, currentMessageParts, pendingParts, messageInfos, messageCount,
                    lastUpdated, processedToolStates, typingTimer, partHashes, immediates,
                    history>>

vars == <<intervalSeconds, queues, queueKeys, timers, sessionTasks, generation,
          sent, accepted, cleared, lastClear, dropped, intervalChanged, env,
          state, now, call, heap, currentSessionId, currentMessageParts, pendingParts,
          messageInfos, messageCount, lastUpdated, processedToolStates, typingTimer, partHashes,
          immediates, history>>

\* the task enqueue / enqueueFile hand to enqueueTask in immediate mode: one
\* sendTextSafe / sendFileSafe with the generation captured at the call
ImmediateTask(item) ==
  [op |-> "send", reason |-> "immediate", gen |-> generation, items |-> <<item>>,
   pc |-> "pending", sendIdx |-> 0, cont |-> <<>>]

\* the task flushSession hands to enqueueTask: one flushSessionInternal;
\* cont: the sessions the flushAll awaiting this flushSession flushes after it
FlushTask(reason, cont) ==
  [op |-> "flush", reason |-> reason, gen |-> -1, items |-> <<>>,
   pc |-> "pending", sendIdx |-> 0, cont |-> cont]

\* enqueueTask: the task runs after every task chained before it has settled
enqueueTask(tasks, sessionId, task) ==
  [tasks EXCEPT ![sessionId] = Append(@, task)]

\* a chain whose tasks do not wait for the tasks chained before them
alwaysStartable(chain, i) == TRUE

\* previousTask.catch(...).then(task): task number i of a chain may start
Startable(chain, i) == i = 1

RemoveAt(seq, i) == SubSeq(seq, 1, i - 1) \o SubSeq(seq, i + 1, Len(seq))

\* a microtask is due: a task whose predecessor settled, or a flush between two sends
MicrotaskPending ==
  \E s \in Sessions : \E i \in 1..Len(sessionTasks[s]) :
     \/ sessionTasks[s][i].pc = "resumed"
     \/ sessionTasks[s][i].pc = "pending" /\ Startable(sessionTasks[s], i)

TimerDue == \E s \in Sessions : timers[s] = 0

\* a clearTimer that cancels nothing
leaveTimer(tm, sessionId) == tm

clearTimer(tm, sessionId) == [tm EXCEPT ![sessionId] = NoTimer]

\* setTimeout(..., this.intervalSeconds * 1000)
restartTimer(tm, sessionId, seconds) ==
  [clearTimer(tm, sessionId) EXCEPT ![sessionId] = seconds * 1000]

\* an enqueue that restarts the timer of its session
resetTimer(tm, sessionId, seconds) == restartTimer(tm, sessionId, seconds)

\* an ensureTimer that arms nothing
armNothing(tm, sessionId, seconds) == tm

ensureTimer(tm, sessionId, seconds) ==
  IF tm[sessionId] # NoTimer THEN tm ELSE restartTimer(tm, sessionId, seconds)

\* queue.push(item); this.queues.set(sessionId, queue)
pushKey(keys, sessionId) ==
  IF \E i \in 1..Len(keys) : keys[i] = sessionId THEN keys ELSE Append(keys, sessionId)

deleteKey(keys, sessionId) == SelectSeq(keys, LAMBDA k : k # sessionId)

\* the tags of the accepted items a queue item or a send carries
ItemTags(item) ==
  IF item.kind = "file" THEN {item.fileData.filename}
  ELSE {item.text[j] : j \in 1..Len(item.text)} \ Whitespace

RECURSIVE TagsOf(_)
TagsOf(items) ==
  IF items = <<>> THEN {} ELSE ItemTags(Head(items)) \cup TagsOf(Tail(items))

\* private state: InteractionState | null = null
NoState == [kind |-> "null"]
NoCall == [op |-> "none"]

\* an optional value: undefined, null, or a value
Undefined == [type |-> "undefined"]
Null == [type |-> "null"]
Val(v) == [type |-> "value", value |-> v]

\* the objects a caller may put into the metadata of an interaction: a reference
\* names the object, the heap has its content
Refs == {"&request"}
InitHeap == [r \in Refs |-> "pending"]

InitInteraction ==
  /\ state = NoState
  /\ now = 0
  /\ call = NoCall
  /\ heap = InitHeap

\* no typing timer: the field is null and no interval runs
NoTypingTimer == [set |-> FALSE, running |-> 0]

\* new Map()
EmptyMap == [k \in {} |-> <<>>]

\* nothing has arrived since the last clear
NoHistory == [texts |-> EmptyMap, tools |-> {}, completed |-> {}]

\* the SummaryAggregator after construction
InitAggregator ==
  /\ currentSessionId = Null
  /\ currentMessageParts = EmptyMap
  /\ pendingParts = EmptyMap
  /\ messageInfos = EmptyMap
  /\ messageCount = 0
  /\ lastUpdated = 0
  /\ processedToolStates = {}
  /\ typingTimer = NoTypingTimer
  /\ partHashes = EmptyMap
  /\ immediates = <<>>
  /\ history = NoHistory

InitBatcher ==
  /\ intervalSeconds \in {normalizeIntervalSeconds(v) : v \in IntervalInputs}
  /\ queues = [s \in Sessions |-> <<>>]
  /\ queueKeys = <<>>
  /\ timers = [s \in Sessions |-> NoTimer]
  /\ sessionTasks = [s \in Sessions |-> <<>>]
  /\ generation = 0
  /\ sent = <<>>
  /\ accepted = 0
  /\ cleared = {}
  /\ lastClear = "none"
  /\ dropped = {}
  /\ intervalChanged = FALSE

\* The environment asks for a flush of a session only when no flush it asked for
\* earlier is still waiting, unstarted, at the end of that session's chain
FlushWaiting(sessionId) ==
  LET chain == sessionTasks[sessionId]
  IN chain # <<>> /\ chain[Len(chain)].op = "flush" /\ chain[Len(chain)].pc = "pending"

\* The environment clears only when a clear has something to discard: a queued
\* item of its scope, or a send that captured the current generation
LiveSend == \E s \in Sessions : \E i \in 1..Len(sessionTasks[s]) :
               sessionTasks[s][i].gen = generation /\ sessionTasks[s][i].items # <<>>

Init ==
  /\ InitBatcher
  /\ InitInteraction
  /\ InitAggregator
  /\ env = [sessions |-> Sessions, items |-> MaxItems, outcomes |-> {TRUE},
            long |-> FALSE]

InitSession ==
  /\ InitBatcher
  /\ InitInteraction
  /\ InitAggregator
  /\ env = [sessions |-> {"s1"}, items |-> MaxSessionItems, outcomes |-> BOOLEAN,
            long |-> FALSE]

InitLong ==
  /\ InitBatcher
  /\ InitInteraction
  /\ InitAggregator
  /\ env = [sessions |-> {"s1"}, items |-> MaxLongItems, outcomes |-> {TRUE},
            long |-> TRUE]

(* ------------------------------------------------------------------ *)
(* The public operations                                               *)
(* ------------------------------------------------------------------ *)
\* a queue with its items in the reverse order of their arrival
unshiftItem(queue, item) == <<item>> \o queue

\* queue.push(item)
pushItem(queue, item) == Append(queue, item)

\* what enqueue and enqueueFile do with an accepted item
Accept(sessionId, item) ==
  /\ accepted < env.items
  /\ accepted' = accepted + 1
  /\ IF intervalSeconds = 0
       THEN /\ sessionTasks' = enqueueTask(sessionTasks, sessionId, ImmediateTask(item))
            /\ UNCHANGED <<queues, queueKeys, timers, env>>
       ELSE /\ queues' = [queues EXCEPT ![sessionId] = pushItem(@, item)]
            /\ queueKeys' = pushKey(queueKeys, sessionId)
            /\ timers' = ensureTimer(timers, sessionId, intervalSeconds)
            /\ UNCHANGED sessionTasks
  /\ UNCHANGED <<intervalSeconds, generation, sent, cleared, lastClear, dropped, intervalChanged, env>>

enqueue(sessionId, message) ==
  LET normalizedMessage == trim(message)
  IN IF sessionId = "" \/ Len(normalizedMessage) = 0
       THEN UNCHANGED vars
       ELSE Accept(sessionId, TextItem(normalizedMessage))

enqueueFile(sessionId, fileData) ==
  IF sessionId = "" THEN UNCHANGED vars ELSE Accept(sessionId, FileItem(fileData))

flushSession(sessionId, reason) ==
  /\ ~FlushWaiting(sessionId)
  /\ sessionTasks' = enqueueTask(sessionTasks, sessionId, FlushTask(reason, <<>>))
  /\ UNCHANGED <<intervalSeconds, queues, queueKeys, timers, generation, sent,
                 accepted, cleared, lastClear, dropped, intervalChanged, env>>

\* flushAll up to its first await: every timer is cleared, and the first session
\* with a queue gets its flushSession; the others follow as each one settles
flushAllTimers == [s \in Sessions |-> NoTimer]

flushAllTasks(tasks, reason) ==
  IF queueKeys = <<>> THEN tasks
  ELSE enqueueTask(tasks, Head(queueKeys), FlushTask(reason, Tail(queueKeys)))

flushAll(reason) ==
  /\ queueKeys # <<>> => ~FlushWaiting(Head(queueKeys))
  /\ timers' = flushAllTimers
  /\ sessionTasks' = flushAllTasks(sessionTasks, reason)
  /\ UNCHANGED <<intervalSeconds, queues, queueKeys, generation, sent,
                 accepted, cleared, lastClear, dropped, intervalChanged, env>>

\* a change of the interval that leaves the pending timers running
keepTimers(tm, sessionIds, seconds) == tm

\* the timers after setIntervalSeconds set a positive interval: restartTimer for
\* every key of the queues
RECURSIVE restartTimers(_, _, _)
restartTimers(tm, sessionIds, seconds) ==
  IF sessionIds = <<>> THEN tm
  ELSE restartTimers(restartTimer(tm, Head(sessionIds), seconds), Tail(sessionIds), seconds)

setIntervalSeconds(nextIntervalSeconds) ==
  LET normalized == normalizeIntervalSeconds(nextIntervalSeconds)
  IN /\ \A s \in Sessions : ~FlushWaiting(s)
     /\ IF intervalSeconds = normalized
          THEN UNCHANGED <<intervalSeconds, timers, sessionTasks, intervalChanged, env>>
          ELSE /\ intervalSeconds' = normalized
               /\ intervalChanged' = TRUE
               /\ IF normalized = 0
                    THEN /\ timers' = flushAllTimers
                         /\ sessionTasks' = flushAllTasks(sessionTasks, "interval_updated")
                    ELSE /\ timers' = restartTimers(timers, queueKeys, normalized)
                         /\ UNCHANGED sessionTasks
     /\ UNCHANGED <<queues, queueKeys, generation, sent, accepted, cleared, lastClear, dropped, env>>

\* a clearSession that leaves the queue of its session in place
keepQueue(qs, sessionId) == qs

\* this.queues.delete(sessionId)
deleteQueue(qs, sessionId) == [qs EXCEPT ![sessionId] = <<>>]

clearSession(sessionId) ==
  /\ queues[sessionId] # <<>> \/ LiveSend
  /\ generation' = generation + 1
  /\ timers' = clearTimer(timers, sessionId)
  /\ queues' = deleteQueue(queues, sessionId)
  /\ queueKeys' = deleteKey(queueKeys, sessionId)
  /\ cleared' = cleared \cup TagsOf(queues[sessionId])
  /\ lastClear' = sessionId
  /\ UNCHANGED <<intervalSeconds, sessionTasks, sent, accepted, dropped, intervalChanged, env>>

clearAll ==
  /\ queueKeys # <<>> \/ LiveSend
  /\ generation' = generation + 1
  /\ timers' = [s \in Sessions |-> NoTimer]
  /\ queues' = [s \in Sessions |-> <<>>]
  /\ queueKeys' = <<>>
  /\ cleared' = cleared \cup UNION {TagsOf(queues[s]) : s \in Sessions}
  /\ lastClear' = "all"
  /\ UNCHANGED <<intervalSeconds, sessionTasks, sent, accepted, dropped, intervalChanged, env>>

(* ------------------------------------------------------------------ *)
(* Timers, the task chains and the sends                               *)
(* ------------------------------------------------------------------ *)
\* the callback restartTimer hands to setTimeout
timerFired(sessionId) ==
  /\ timers[sessionId] = 0
  /\ ~MicrotaskPending
  /\ timers' = [timers EXCEPT ![sessionId] = NoTimer]
  /\ sessionTasks' = enqueueTask(sessionTasks, sessionId, FlushTask("interval_elapsed", <<>>))
  /\ UNCHANGED <<intervalSeconds, queues, queueKeys, generation, sent,
                 accepted, cleared, lastClear, dropped, intervalChanged, env>>

\* a task of a chain settles: .finally drops it from the chain, and the flushAll
\* awaiting it goes on to its next session
settleTask(tasks, sessionId, i, task) ==
  LET rest == [tasks EXCEPT ![sessionId] = RemoveAt(@, i)]
  IN IF task.cont = <<>> THEN rest
     ELSE enqueueTask(rest, Head(task.cont), FlushTask(task.reason, Tail(task.cont)))

\* the task after one of its sends returned: the next item, or the end of the task
resumeTask(tasks, sessionId, i, task) ==
  IF task.items = <<>> THEN settleTask(tasks, sessionId, i, task)
  ELSE [tasks EXCEPT ![sessionId][i] = [task EXCEPT !.pc = "resumed"]]

\* one call of sendText / sendFile; stale: whether the generation at the call
\* differs from the one the caller captured; rejected: whether the call rejected
SendRecord(sessionId, item, expectedGeneration) ==
  [session |-> sessionId, kind |-> item.kind, text |-> item.text,
   fileData |-> item.fileData, stale |-> generation # expectedGeneration,
   rejected |-> FALSE]

\* a send that goes ahead whatever the generation is
neverStale(expectedGeneration) == FALSE

\* whether sendTextSafe / sendFileSafe drops the send
isStale(expectedGeneration) == generation # expectedGeneration

\* sendTextSafe / sendFileSafe for the first of task.items, up to its await
sendSafe(tasks, sessionId, i, task) ==
  LET item == Head(task.items)
  IN IF isStale(task.gen)
       THEN /\ dropped' = dropped \cup {[session |-> sessionId, tag |-> g] :
                                          g \in ItemTags(item)}
            /\ sent' = sent
            /\ sessionTasks' = resumeTask(tasks, sessionId, i,
                                          [task EXCEPT !.items = Tail(@)])
       ELSE /\ sent' = Append(sent, SendRecord(sessionId, item, task.gen))
            /\ dropped' = dropped
            /\ sessionTasks' = [tasks EXCEPT ![sessionId][i] =
                                  [task EXCEPT !.pc = "awaiting", !.sendIdx = Len(sent) + 1]]

\* a flush that leaves the items it sends in the queue
keepQueued(queue) == queue

\* what flushSessionInternal leaves in the queue it flushes
drainedQueue(queue) == <<>>

\* flushSessionInternal up to its first await
flushSessionInternal(sessionId, i, task) ==
  LET expectedGeneration == generation
      queuedItems == queues[sessionId]
  IN /\ timers' = clearTimer(timers, sessionId)
     /\ IF Len(queuedItems) = 0
          THEN /\ sessionTasks' = settleTask(sessionTasks, sessionId, i, task)
               /\ UNCHANGED <<queues, queueKeys, sent, dropped, env>>
          ELSE /\ queues' = [queues EXCEPT ![sessionId] = drainedQueue(@)]
               /\ queueKeys' = IF queues'[sessionId] = <<>>
                                 THEN deleteKey(queueKeys, sessionId) ELSE queueKeys
               /\ sendSafe(sessionTasks, sessionId, i,
                           [task EXCEPT !.gen = expectedGeneration,
                                        !.items = buildFlushItems(queuedItems)])

\* the task .then(task) starts once the tasks chained before it have settled
taskStarted(sessionId, i) ==
  LET task == sessionTasks[sessionId][i]
  IN /\ task.pc = "pending"
     /\ Startable(sessionTasks[sessionId], i)
     /\ IF task.op = "flush"
          THEN flushSessionInternal(sessionId, i, task)
          ELSE /\ sendSafe(sessionTasks, sessionId, i, task)
               /\ UNCHANGED <<queues, queueKeys, timers, env>>
     /\ UNCHANGED <<intervalSeconds, generation, accepted, cleared, lastClear, intervalChanged, env>>

\* a task that gives up the rest of its items when a send rejects
abortOnReject(items, ok) == IF ok THEN Tail(items) ELSE <<>>

\* the items a task still has to send after the send it awaited resolved or rejected
\* (sendTextSafe / sendFileSafe catch the rejection)
itemsAfterSend(items, ok) == Tail(items)

\* the sendText / sendFile a task awaits resolves (ok) or rejects
sendSettled(sessionId, i, ok) ==
  LET task == sessionTasks[sessionId][i]
  IN /\ task.pc = "awaiting"
     /\ ~MicrotaskPending
     /\ sent' = [sent EXCEPT ![task.sendIdx].rejected = ~ok]
     /\ sessionTasks' = resumeTask(sessionTasks, sessionId, i,
                                   [task EXCEPT !.items = itemsAfterSend(@, ok)])
     /\ UNCHANGED <<intervalSeconds, queues, queueKeys, timers, generation,
                    accepted, cleared, lastClear, dropped, intervalChanged, env>>

\* the loop of flushSessionInternal goes on to its next item
flushResumed(sessionId, i) ==
  LET task == sessionTasks[sessionId][i]
  IN /\ task.pc = "resumed"
     /\ sendSafe(sessionTasks, sessionId, i, task)
     /\ UNCHANGED <<intervalSeconds, queues, queueKeys, timers, generation,
                    accepted, cleared, lastClear, intervalChanged, env>>

\* one second passes for every pending timer; due timers and microtasks run first
tick ==
  /\ \E s \in Sessions : timers[s] # NoTimer
  /\ ~TimerDue
  /\ ~MicrotaskPending
  /\ timers' = [s \in Sessions |-> IF timers[s] = NoTimer THEN NoTimer ELSE timers[s] - 1000]
  /\ UNCHANGED <<intervalSeconds, queues, queueKeys, sessionTasks, generation,
                 sent, accepted, cleared, lastClear, dropped, intervalChanged, env>>

(* ------------------------------------------------------------------ *)
(* Specification                                                       *)
(* ------------------------------------------------------------------ *)
NextTag == Tags[accepted + 1]

\* the texts handed to enqueue: the next tag, bare or padded, or white space
\* only; or the next tag repeated 3000 and 5000 times
MessageInputs ==
  IF env.long THEN {Rep(NextTag, 3000), Rep(NextTag, 5000)}
  ELSE {<<NextTag>>, <<" ", NextTag, "\n">>, <<" ", "\n">>}

\* the public operations, with the inputs the environment hands them
Enqueue ==
  /\ \E s \in env.sessions \cup {""}, m \in MessageInputs : enqueue(s, m)
  /\ UNCHANGED <<interactionVars, heap, aggregatorVars>>
EnqueueFile ==
  /\ \E s \in env.sessions \cup {""} : enqueueFile(s, [filename |-> NextTag])
  /\ UNCHANGED <<interactionVars, heap, aggregatorVars>>
FlushSession ==
  /\ \E s \in env.sessions : flushSession(s, "test_flush")
  /\ UNCHANGED <<interactionVars, heap, aggregatorVars>>
FlushAll == flushAll("flush_all") /\ UNCHANGED <<interactionVars, heap, aggregatorVars>>
SetIntervalSeconds ==
  /\ \E n \in IntervalInputs : setIntervalSeconds(n)
  /\ UNCHANGED <<interactionVars, heap, aggregatorVars>>
ClearSession ==
  /\ \E s \in env.sessions : clearSession(s)
  /\ UNCHANGED <<interactionVars, heap, aggregatorVars>>
ClearAll == clearAll /\ UNCHANGED <<interactionVars, heap, aggregatorVars>>

\* the steps of the event loop
TimerFired ==
  /\ \E s \in Sessions : timerFired(s)
  /\ UNCHANGED <<interactionVars, heap, aggregatorVars>>
TaskStarted ==
  /\ \E s \in Sessions : \E i \in 1..Len(sessionTasks[s]) : taskStarted(s, i)
  /\ UNCHANGED <<interactionVars, heap, aggregatorVars>>
SendSettled ==
  /\ \E s \in Sessions : \E i \in 1..Len(sessionTasks[s]) :
       \E ok \in env.outcomes : sendSettled(s, i, ok)
  /\ UNCHANGED <<interactionVars, heap, aggregatorVars>>
FlushResumed ==
  /\ \E s \in Sessions : \E i \in 1..Len(sessionTasks[s]) : flushResumed(s, i)
  /\ UNCHANGED <<interactionVars, heap, aggregatorVars>>
Tick == tick /\ UNCHANGED <<interactionVars, heap, aggregatorVars>>

\* every operation, two sessions
Next ==
  \/ Enqueue
  \/ EnqueueFile
  \/ FlushSession
  \/ FlushAll
  \/ SetIntervalSeconds
  \/ ClearSession
  \/ ClearAll
  \/ TimerFired
  \/ TaskStarted
  \/ SendSettled
  \/ FlushResumed
  \/ Tick

Spec == Init /\ [][Next]_vars

\* one session whose interval setting is fixed at construction
NextFixed ==
  \/ Enqueue
  \/ EnqueueFile
  \/ FlushSession
  \/ FlushAll
  \/ ClearAll
  \/ TimerFired
  \/ TaskStarted
  \/ SendSettled
  \/ FlushResumed
  \/ Tick

SpecFixed == InitSession /\ [][NextFixed]_vars

\* two sessions whose interval setting is fixed at construction, flushed by
\* their timers and cleared
NextClear ==
  \/ Enqueue
  \/ EnqueueFile
  \/ ClearSession
  \/ ClearAll
  \/ TimerFired
  \/ TaskStarted
  \/ SendSettled
  \/ FlushResumed
  \/ Tick

SpecClear == Init /\ [][NextClear]_vars

\* two sessions, the interval setting changing, nothing cleared
NextFlush ==
  \/ Enqueue
  \/ EnqueueFile
  \/ FlushSession
  \/ FlushAll
  \/ SetIntervalSeconds
  \/ TimerFired
  \/ TaskStarted
  \/ SendSettled
  \/ FlushResumed
  \/ Tick

SpecFlush == Init /\ [][NextFlush]_vars

\* two sessions flushed by their timers, the interval setting changing
NextInterval ==
  \/ Enqueue
  \/ EnqueueFile
  \/ SetIntervalSeconds
  \/ TimerFired
  \/ TaskStarted
  \/ SendSettled
  \/ FlushResumed
  \/ Tick

SpecInterval == Init /\ [][NextInterval]_vars

\* two sessions with queued texts at the change of the interval setting, and
\* texts enqueued after it
InitOrder ==
  /\ InitBatcher
  /\ InitInteraction
  /\ InitAggregator
  /\ env = [sessions |-> Sessions, items |-> MaxSessionItems, outcomes |-> {TRUE},
            long |-> FALSE]

NextOrder ==
  \/ Enqueue
  \/ SetIntervalSeconds
  \/ TaskStarted
  \/ SendSettled

SpecOrder == InitOrder /\ [][NextOrder]_vars

\* the callers enqueue and clear, settled sends resolve or reject, and the
\* interval setting stays as constructed
InitLive ==
  /\ InitBatcher
  /\ InitInteraction
  /\ InitAggregator
  /\ env = [sessions |-> Sessions, items |-> MaxItems, outcomes |-> BOOLEAN,
            long |-> FALSE]

NextLive ==
  \/ Enqueue
  \/ EnqueueFile
  \/ ClearSession
  \/ ClearAll
  \/ TimerFired
  \/ TaskStarted
  \/ SendSettled
  \/ FlushResumed
  \/ Tick

\* timers fire, the event loop runs every microtask, and every send settles
SpecLive ==
  /\ InitLive
  /\ [][NextLive]_vars
  /\ WF_vars(Tick)
  /\ WF_vars(TimerFired)
  /\ WF_vars(TaskStarted)
  /\ WF_vars(SendSettled)
  /\ WF_vars(FlushResumed)

\* one session enqueueing long texts, the interval setting fixed at construction
NextLong ==
  \/ Enqueue
  \/ FlushSession
  \/ TimerFired
  \/ TaskStarted
  \/ SendSettled
  \/ FlushResumed
  \/ Tick

SpecLong == InitLong /\ [][NextLong]_vars

(* ------------------------------------------------------------------ *)
(* The text functions of a flush, applied to texts of real sizes       *)
(* ------------------------------------------------------------------ *)
\* texts as enqueue stores them: trimmed and not empty
PackEntries ==
  {<<"a">>, <<"b", "\n", "c">>, <<"d", "\n", "\n", "e">>,
   Rep("f", 2000), Rep("g", 2094), Rep("h", TELEGRAM_MESSAGE_MAX_LENGTH)}

PackInputs == UNION {[1..k -> PackEntries] : k \in 1..MaxPackEntries}

\* 0-based offsets of the newlines of a long text, around the places the cut looks at
NewlineOffsets ==
  {0, 1, (TELEGRAM_MESSAGE_MAX_LENGTH \div 2) - 1, TELEGRAM_MESSAGE_MAX_LENGTH \div 2,
   (TELEGRAM_MESSAGE_MAX_LENGTH \div 2) + 1, TELEGRAM_MESSAGE_MAX_LENGTH - 1,
   TELEGRAM_MESSAGE_MAX_LENGTH, TELEGRAM_MESSAGE_MAX_LENGTH + 1}

LongLengths ==
  {TELEGRAM_MESSAGE_MAX_LENGTH + 2, TELEGRAM_MESSAGE_MAX_LENGTH + 904,
   2 * TELEGRAM_MESSAGE_MAX_LENGTH + 8}

TextWith(len, offsets) ==
  [i \in 1..len |-> IF (i - 1) \in offsets THEN "\n" ELSE "x"] \o <<>>

SplitInputs ==
  {TextWith(len, offsets) :
     len \in LongLengths,
     offsets \in {o \in SUBSET NewlineOffsets : Cardinality(o) <= MaxSplitNewlines}}

\* flushTextBuffer hands its buffer of texts to packMessages
PackMessages ==
  /\ call = NoCall
  /\ \E messages \in PackInputs :
       call' = [op |-> "packMessages", messages |-> messages,
                result |-> packMessages(messages)]
  /\ UNCHANGED <<batcherVars, env, heap, aggregatorVars, state, now>>

\* packMessages hands each text to splitLongText
SplitLongText ==
  /\ call = NoCall
  /\ \E text \in SplitInputs :
       call' = [op |-> "splitLongText", text |-> text,
                limit |-> TELEGRAM_MESSAGE_MAX_LENGTH,
                result |-> splitLongText(text, TELEGRAM_MESSAGE_MAX_LENGTH)]
  /\ UNCHANGED <<batcherVars, env, heap, aggregatorVars, state, now>>

NextText ==
  \/ PackMessages
  \/ SplitLongText

InitText ==
  /\ Init
  /\ intervalSeconds = normalizeIntervalSeconds(0)

SpecText == InitText /\ [][NextText]_vars

(* ------------------------------------------------------------------ *)
(* InteractionManager                                                  *)
(* ------------------------------------------------------------------ *)
\* an optional property of an options object: left out, null, or a value

LowerCaseOf ==
  [A |-> "a", B |-> "b", C |-> "c", D |-> "d", E |-> "e", F |-> "f", G |-> "g",
   H |-> "h", I |-> "i", J |-> "j", K |-> "k", L |-> "l", M |-> "m", N |-> "n",
   O |-> "o", P |-> "p", Q |-> "q", R |-> "r", S |-> "s", T |-> "t", U |-> "u",
   V |-> "v", W |-> "w", X |-> "x", Y |-> "y", Z |-> "z"]

\* String.prototype.toLowerCase
toLowerCase(t) ==
  [i \in 1..Len(t) |->
     IF t[i] \in DOMAIN LowerCaseOf THEN LowerCaseOf[t[i]] ELSE t[i]] \o <<>>

\* t.split("@")[0]
beforeMention(t) ==
  LET at == {i \in 1..Len(t) : t[i] = "@"}
  IN IF at = {} THEN t ELSE SubSeq(t, 1, (CHOOSE i \in at : \A j \in at : i <= j) - 1)

Help == <<"/", "h", "e", "l", "p">>
Status == <<"/", "s", "t", "a", "t", "u", "s">>
Stop == <<"/", "s", "t", "o", "p">>
DEFAULT_ALLOWED_INTERACTION_COMMANDS == <<Help, Status, Stop>>

\* the empty sequence stands for the null that normalizeCommand returns
normalizeCommand(command) ==
  LET trimmed == toLowerCase(trim(command))
      withSlash == IF trimmed # <<>> /\ trimmed[1] = "/" THEN trimmed ELSE <<"/">> \o trimmed
      withoutMention == beforeMention(withSlash)
  IN IF trimmed = <<>> THEN <<>>
     ELSE IF Len(withoutMention) <= 1 THEN <<>>
     ELSE withoutMention

\* the Set of normalizeAllowedCommands, in insertion order
RECURSIVE normalizedSet(_, _)
normalizedSet(commands, normalized) ==
  IF commands = <<>> THEN normalized
  ELSE LET value == normalizeCommand(Head(commands))
       IN IF value # <<>> /\ \A k \in 1..Len(normalized) : normalized[k] # value
            THEN normalizedSet(Tail(commands), Append(normalized, value))
            ELSE normalizedSet(Tail(commands), normalized)

normalizeAllowedCommands(commands) ==
  IF commands = Undefined THEN DEFAULT_ALLOWED_INTERACTION_COMMANDS
  ELSE normalizedSet(commands.value, <<>>)

cloneWithDefaultCommands(s) ==
  [s EXCEPT !.allowedCommands = DEFAULT_ALLOWED_INTERACTION_COMMANDS]

cloneState(s) == s

keepExpiresAt(options, time) ==
  IF options.expiresInMs.type = "value" THEN Val(time + options.expiresInMs.value)
  ELSE IF state = NoState THEN Null ELSE state.expiresAt

\* start: expiresAt is null unless expiresInMs is a number
startExpiresAt(options, time) ==
  IF options.expiresInMs.type = "value" THEN Val(time + options.expiresInMs.value)
  ELSE Null

start(options) ==
  LET nextState ==
        [kind |-> options.kind.value,
         expectedInput |-> options.expectedInput.value,
         allowedCommands |-> normalizeAllowedCommands(options.allowedCommands),
         metadata |-> IF options.metadata.type = "value" THEN options.metadata.value ELSE {},
         createdAt |-> now,
         expiresAt |-> startExpiresAt(options, now)]
  IN /\ state' = nextState
     /\ call' = [op |-> "start", options |-> options,
                  \* the kind named by the "state_replaced" clear, when there was a state
                  replaced |-> IF state # NoState THEN Val(state.kind) ELSE Null,
                  result |-> cloneState(nextState)]
     /\ UNCHANGED now

getNull == Null

get == IF state = NoState THEN Null ELSE Val(cloneState(state))

getSnapshot == get

isActive == state # NoState

neverExpired(referenceTimeMs) == FALSE

expiredOnceSet(referenceTimeMs) == state # NoState /\ state.expiresAt # Null

isExpiredStrictly(referenceTimeMs) ==
  IF state = NoState \/ state.expiresAt = Null THEN FALSE
  ELSE referenceTimeMs > state.expiresAt.value

isExpired(referenceTimeMs) ==
  IF state = NoState \/ state.expiresAt = Null THEN FALSE
  ELSE referenceTimeMs >= state.expiresAt.value

\* options.x ?? fallback
Coalesce(x, fallback) == IF x.type = "value" THEN x.value ELSE fallback

mergeMetadata(options, previous) ==
  IF options.metadata.type = "value" THEN options.metadata.value \cup previous ELSE previous

transitionMetadata(options, previous) ==
  IF options.metadata.type = "value" THEN options.metadata.value ELSE previous

transitionExpiresAt(options, time) ==
  IF options.expiresInMs = Undefined THEN state.expiresAt
  ELSE IF options.expiresInMs = Null THEN Null
  ELSE Val(time + options.expiresInMs.value)

transition(options) ==
  IF state = NoState
    THEN /\ call' = [op |-> "transition", options |-> options, result |-> Null]
         /\ UNCHANGED <<state, now>>
    ELSE LET nextState ==
               [state EXCEPT
                  !.kind = Coalesce(options.kind, state.kind),
                  !.expectedInput = Coalesce(options.expectedInput, state.expectedInput),
                  !.allowedCommands =
                     IF options.allowedCommands # Undefined
                       THEN normalizeAllowedCommands(options.allowedCommands)
                       ELSE state.allowedCommands,
                  !.metadata = transitionMetadata(options, state.metadata),
                  !.expiresAt = transitionExpiresAt(options, now)]
         IN /\ state' = nextState
            /\ call' = [op |-> "transition", options |-> options,
                         result |-> Val(cloneState(nextState))]
            /\ UNCHANGED now

clear(reason) ==
  /\ state' = NoState
  /\ call' = [op |-> "clear", reason |-> reason]
  /\ UNCHANGED now

\* Date.now() moves on
advanceClock ==
  /\ now < MaxNow
  /\ now' = now + 1
  /\ UNCHANGED <<state, call>>

(* inputs of the manager *)
\* the list of the test "normalizes and deduplicates allowed commands", and a short one
AllowedInputs ==
  {Undefined,
   Val(<<Stop>>),
   Val(<< <<"/", "H", "e", "l", "p">>, <<"s", "t", "a", "t", "u", "s">>, Help,
          <<" ", "/", "S", "T", "A", "T", "U", "S", "@", "M", "y", "B", "o", "t", " ">>,
          <<>>, <<" ", "/", " ">> >>)}

MetadataInputs ==
  {Undefined, Val({<<"sessionId", "session-1">>, <<"step", "1">>}), Val({<<"step", "2">>})}

StartInputs ==
  {[kind |-> Val(k), expectedInput |-> Val(e), allowedCommands |-> a, metadata |-> m,
    expiresInMs |-> x] :
     k \in env.kinds, e \in env.expected, a \in AllowedInputs \ {Val(<<Stop>>)},
     m \in env.metadata, x \in {Undefined, Val(2)}}

TransitionInputs ==
  {[kind |-> k, expectedInput |-> e, allowedCommands |-> a, metadata |-> m,
    expiresInMs |-> x] :
     k \in {Undefined, Val("question")}, e \in {Undefined, Val("mixed")},
     a \in {Undefined, Val(<<Stop>>)}, m \in {Undefined, Val({<<"step", "2">>})},
     x \in {Undefined, Null, Val(1)}}

Start ==
  /\ \E options \in StartInputs : start(options)
  /\ UNCHANGED <<batcherVars, env, heap, aggregatorVars>>
Transition ==
  /\ \E options \in TransitionInputs : transition(options)
  /\ UNCHANGED <<batcherVars, env, heap, aggregatorVars>>
Clear == clear("manual") /\ UNCHANGED <<batcherVars, env, heap, aggregatorVars>>
AdvanceClock == advanceClock /\ UNCHANGED <<batcherVars, env, heap, aggregatorVars>>

(* ------------------------------------------------------------------ *)
(* normalizeAllowedCommands on the lists a caller may hand it          *)
(* ------------------------------------------------------------------ *)
MaxCommands == 3

\* raw commands: the spellings of the test "normalizes and deduplicates allowed
\* commands" (capitals, no slash, spaces around, a mention), a command followed by
\* a space and a mention, and two that normalize to nothing
RawCommands ==
  {<<"/", "H", "e", "l", "p">>,
   <<"h", "e", "l", "p">>,
   <<" ", "/", "H", "E", "L", "P", "@", "B", "o", "t", " ">>,
   <<"/", "h", "e", "l", "p", " ", "@", "b", "o", "t">>,
   <<"s", "t", "o", "p">>,
   <<" ", "/", " ">>,
   <<>>}

CommandLists == UNION {[1..k -> RawCommands] : k \in 1..MaxCommands}

NormalizeAllowedCommands ==
  /\ call = NoCall
  /\ \E commands \in CommandLists :
       call' = [op |-> "normalizeAllowedCommands", commands |-> commands,
                result |-> normalizeAllowedCommands(Val(commands))]
  /\ UNCHANGED <<state, now, heap>>
  /\ UNCHANGED <<batcherVars, env, aggregatorVars>>

NextNormalize == NormalizeAllowedCommands

InitNormalize ==
  /\ InitBatcher
  /\ intervalSeconds = normalizeIntervalSeconds(0)
  /\ InitInteraction
  /\ InitAggregator
  /\ env = [sessions |-> {}, items |-> 0, outcomes |-> {TRUE}, long |-> FALSE,
            kinds |-> {}, expected |-> {}, chats |-> {}, metadata |-> {}]

SpecNormalize == InitNormalize /\ [][NextNormalize]_vars

(* ------------------------------------------------------------------ *)
(* The objects the manager hands out and is handed                     *)
(* ------------------------------------------------------------------ *)
\* The arrays and objects that cloneState, normalizeAllowedCommands and the spreads
\* of start and transition build are new ones: the model holds them by value, the
\* caller's in call and the manager's in state.  A spread copies the entries of
\* metadata and not what an entry refers to: an entry whose value is an object is
\* a reference in both copies, and the object is in the heap.
Contents == {"pending", "approved"}
Pushed == <<"/", "x">>
Added == <<"added", "1">>

\* the state the caller holds from the latest start, get, getSnapshot or transition
Returned ==
  IF call.op = "start" THEN Val(call.result)
  ELSE IF call.op \in {"get", "getSnapshot", "transition"} THEN call.result
  ELSE IF call.op = "mutate" THEN call.returned
  ELSE Null

\* the options object the caller holds from the latest start or transition
Options ==
  IF call.op \in {"start", "transition"} THEN Val(call.options)
  ELSE IF call.op = "mutate" THEN call.options
  ELSE Null

Get ==
  /\ call' = [op |-> "get", result |-> get]
  /\ UNCHANGED <<state, now, heap>>
  /\ UNCHANGED <<batcherVars, env, aggregatorVars>>

GetSnapshot ==
  /\ call' = [op |-> "getSnapshot", result |-> getSnapshot]
  /\ UNCHANGED <<state, now, heap>>
  /\ UNCHANGED <<batcherVars, env, aggregatorVars>>

\* the caller pushes onto the allowedCommands of the state it was handed, or sets
\* a key of its metadata: the array and the object are the copies cloneState made
MutateReturned ==
  /\ Returned.type = "value"
  /\ \E mutated \in
         {[Returned.value EXCEPT !.allowedCommands = Append(@, Pushed)],
          [Returned.value EXCEPT !.metadata = @ \cup {Added}]} :
       /\ mutated # Returned.value
       /\ Len(mutated.allowedCommands) <= Len(DEFAULT_ALLOWED_INTERACTION_COMMANDS) + 1
       /\ call' = [op |-> "mutate", what |-> "returned", returned |-> Val(mutated),
                    options |-> Options]
  /\ UNCHANGED <<state, now, heap>>
  /\ UNCHANGED <<batcherVars, env, aggregatorVars>>

\* the caller pushes onto the allowedCommands of the options it handed to start or
\* transition, or sets a key of their metadata, after the call returned: the
\* manager kept the array normalizeAllowedCommands built and a spread of metadata
MutateOptions ==
  /\ Options.type = "value"
  /\ \E mutated \in
         {[Options.value EXCEPT !.allowedCommands =
             IF @ = Undefined THEN @ ELSE Val(Append(@.value, Pushed))],
          [Options.value EXCEPT !.metadata =
             IF @ = Undefined THEN @ ELSE Val(@.value \cup {Added})]} :
       /\ mutated # Options.value
       /\ mutated.allowedCommands.type = "value" =>
            Pushed \notin {mutated.allowedCommands.value[k] :
                             k \in 1..(Len(mutated.allowedCommands.value) - 1)}
       /\ call' = [op |-> "mutate", what |-> "options", returned |-> Returned,
                    options |-> Val(mutated)]
  /\ UNCHANGED <<state, now, heap>>
  /\ UNCHANGED <<batcherVars, env, aggregatorVars>>

\* the references among the values of a metadata object
refsOf(metadata) == {p[2] : p \in metadata} \cap Refs

\* the objects the caller reaches through the state and the options it holds
Reachable ==
  (IF Returned.type = "value" THEN refsOf(Returned.value.metadata) ELSE {})
  \cup (IF Options.type = "value" /\ Options.value.metadata.type = "value"
          THEN refsOf(Options.value.metadata.value) ELSE {})

\* the caller assigns to a field of an object that is a value of the metadata
MutateNested ==
  /\ \E r \in Reachable : \E c \in Contents \ {heap[r]} : heap' = [heap EXCEPT ![r] = c]
  /\ call' = [op |-> "mutate", what |-> "nested", returned |-> Returned, options |-> Options]
  /\ UNCHANGED <<state, now>>
  /\ UNCHANGED <<batcherVars, env, aggregatorVars>>

InitAliasing ==
  /\ InitBatcher
  /\ intervalSeconds = normalizeIntervalSeconds(0)
  /\ InitInteraction
  /\ InitAggregator
  /\ env = [sessions |-> {}, items |-> 0, outcomes |-> {TRUE}, long |-> FALSE,
            kinds |-> {"permission"}, expected |-> {"callback"}, chats |-> {TRUE},
            metadata |-> {Undefined, Val({<<"request", "&request">>, <<"step", "1">>})}]

NextAliasing ==
  \/ Start
  \/ Transition
  \/ Clear
  \/ Get
  \/ GetSnapshot
  \/ MutateReturned
  \/ MutateOptions
  \/ MutateNested

SpecAliasing == InitAliasing /\ [][NextAliasing]_vars

(* ------------------------------------------------------------------ *)
(* The interaction guard and its middleware                            *)
(* ------------------------------------------------------------------ *)
\* the first whitespace-delimited token of a text
firstToken(text) ==
  LET ws == {i \in 1..Len(text) : text[i] \in Whitespace}
  IN IF ws = {} THEN text
     ELSE SubSeq(text, 1, (CHOOSE i \in ws : \A j \in ws : i <= j) - 1)

\* classification of an update: callback, command (with its token), text or other
classifyIncomingInput(ctx) ==
  IF ctx.callbackQuery # Undefined
    THEN [inputType |-> "callback", command |-> Undefined]
  ELSE IF ctx.message # Undefined
    THEN LET text == ctx.message.value
             token == normalizeCommand(firstToken(text))
         IN IF text # <<>> /\ text[1] = "/" /\ Len(token) > 1
              THEN [inputType |-> "command", command |-> Val(token)]
              ELSE [inputType |-> "text", command |-> Undefined]
  ELSE [inputType |-> "other", command |-> Undefined]

Contains(seq, x) == \E k \in 1..Len(seq) : seq[k] = x

expectedReason(expectedInput) ==
  IF expectedInput = "callback" THEN "expected_callback"
  ELSE IF expectedInput = "command" THEN "expected_command"
  ELSE "expected_text"

\* the cancel button of the rename prompt, pressed while the new name is awaited
isRenameCancel(snapshot, ctx) ==
  /\ snapshot.kind = "rename"
  /\ snapshot.expectedInput = "text"
  /\ ctx.callbackQuery = Val("rename:cancel")

Allow(input, snapshot) ==
  [allow |-> TRUE, inputType |-> input.inputType, state |-> snapshot,
   reason |-> Undefined, command |-> input.command]

Block(input, snapshot, reason) ==
  [allow |-> FALSE, inputType |-> input.inputType, state |-> snapshot,
   reason |-> Val(reason), command |-> input.command]

\* the decision of resolveInteractionGuardDecision for the state and the clock as they are
guardDecision(ctx) ==
  LET input == classifyIncomingInput(ctx)
      snapshot == getSnapshot
  IN IF snapshot = Null THEN Allow(input, Null)
     ELSE IF isExpired(now) THEN Block(input, snapshot, "expired")
     ELSE IF input.inputType = "command"
       THEN IF Contains(snapshot.value.allowedCommands, input.command.value)
              THEN Allow(input, snapshot)
              ELSE Block(input, snapshot, "command_not_allowed")
     ELSE IF isRenameCancel(snapshot.value, ctx) THEN Allow(input, snapshot)
     ELSE IF snapshot.value.expectedInput = "mixed" THEN Allow(input, snapshot)
     ELSE IF snapshot.value.expectedInput = input.inputType THEN Allow(input, snapshot)
     ELSE Block(input, snapshot, expectedReason(snapshot.value.expectedInput))

\* the side effect of a resolution: clear("expired")
stateAfterGuard == IF getSnapshot # Null /\ isExpired(now) THEN NoState ELSE state

resolveInteractionGuardDecision(ctx) ==
  /\ state' = stateAfterGuard
  /\ call' = [op |-> "resolve", ctx |-> ctx, decision |-> guardDecision(ctx)]
  /\ UNCHANGED now

getInteractionBlockedMessage(reason, interactionKind) ==
  IF interactionKind = Val("permission")
    THEN IF reason = Val("command_not_allowed")
           THEN "permission.blocked.command_not_allowed"
           ELSE "permission.blocked.expected_reply"
  ELSE IF interactionKind = Val("rename")
    THEN IF reason = Val("command_not_allowed")
           THEN "rename.blocked.command_not_allowed"
           ELSE "rename.blocked.expected_name"
  ELSE IF reason = Val("expired") THEN "interaction.blocked.expired"
  ELSE IF reason = Val("expected_callback") THEN "interaction.blocked.expected_callback"
  ELSE IF reason = Val("expected_command") THEN "interaction.blocked.expected_command"
  ELSE IF reason = Val("command_not_allowed") THEN "interaction.blocked.command_not_allowed"
  ELSE "interaction.blocked.expected_text"

answerAlsoReplies(ctx) == ctx.chat

\* if (ctx.callbackQuery) { answerCallbackQuery; return; }
answerOnly(ctx) == FALSE

\* interactionGuardMiddleware(ctx, next); nextOk, sendOk: whether next() and the
\* answer or reply resolve or reject
interactionGuardMiddleware(ctx, nextOk, sendOk) ==
  LET decision == guardDecision(ctx)
      kind == IF decision.state = Null THEN Undefined ELSE Val(decision.state.value.kind)
      message == getInteractionBlockedMessage(decision.reason, kind)
      answers == ~decision.allow /\ ctx.callbackQuery # Undefined
      replies == /\ ~decision.allow
                 /\ IF ctx.callbackQuery # Undefined THEN answerOnly(ctx) ELSE ctx.chat
  IN /\ state' = stateAfterGuard
     /\ call' = [op |-> "middleware", ctx |-> ctx, decision |-> decision,
                  nextCalls |-> IF decision.allow THEN 1 ELSE 0,
                  answered |-> IF answers THEN <<message>> ELSE <<>>,
                  replied |-> IF replies THEN <<message>> ELSE <<>>,
                  sendOk |-> sendOk,
                  \* the promise of the middleware rejects only with next()
                  rejected |-> decision.allow /\ ~nextOk]
     /\ UNCHANGED now

(* inputs of the guard *)
Hello == <<"h", "e", "l", "l", "o">>

TextInputs ==
  {Hello, Status, Help, <<"/", "n", "e", "w">>, <<"/">>,
   <<"/", "S", "t", "o", "p", "@", "M", "y", "B", "o", "t", " ", "n", "o", "w">>}

ContextInputs ==
  {[callbackQuery |-> Val(d), message |-> Undefined, chat |-> c] :
     d \in {"rename:cancel", "project:abc"}, c \in env.chats}
  \cup {[callbackQuery |-> Undefined, message |-> Val(text), chat |-> TRUE] :
          text \in TextInputs}
  \cup {[callbackQuery |-> Undefined, message |-> Undefined, chat |-> c] : c \in env.chats}

Resolve ==
  /\ \E ctx \in ContextInputs : resolveInteractionGuardDecision(ctx)
  /\ UNCHANGED <<batcherVars, env, heap, aggregatorVars>>

Middleware ==
  /\ \E ctx \in ContextInputs, nextOk \in BOOLEAN, sendOk \in BOOLEAN :
       interactionGuardMiddleware(ctx, nextOk, sendOk)
  /\ UNCHANGED <<batcherVars, env, heap, aggregatorVars>>

InitManager ==
  /\ InitBatcher
  /\ intervalSeconds = normalizeIntervalSeconds(0)
  /\ InitInteraction
  /\ InitAggregator
  /\ env = [sessions |-> {}, items |-> 0, outcomes |-> {TRUE}, long |-> FALSE,
            kinds |-> {"rename"}, expected |-> {"text"}, chats |-> {TRUE},
            metadata |-> MetadataInputs \ {Val({<<"step", "2">>})}]

InitGuard ==
  /\ InitBatcher
  /\ intervalSeconds = normalizeIntervalSeconds(0)
  /\ InitInteraction
  /\ InitAggregator
  /\ env = [sessions |-> {}, items |-> 0, outcomes |-> {TRUE}, long |-> FALSE,
            kinds |-> {"rename", "permission"},
            expected |-> {"callback", "text", "command", "mixed"}, chats |-> {TRUE},
            metadata |-> {Undefined}]

InitMiddleware ==
  /\ InitBatcher
  /\ intervalSeconds = normalizeIntervalSeconds(0)
  /\ InitInteraction
  /\ InitAggregator
  /\ env = [sessions |-> {}, items |-> 0, outcomes |-> {TRUE}, long |-> FALSE,
            kinds |-> {"rename", "permission"},
            expected |-> {"callback", "text"}, chats |-> BOOLEAN,
            metadata |-> {Undefined}]

NextManager ==
  \/ Start
  \/ Transition
  \/ Clear
  \/ AdvanceClock
  \/ Resolve

SpecManager == InitManager /\ [][NextManager]_vars

NextGuard ==
  \/ Start
  \/ Clear
  \/ AdvanceClock
  \/ Resolve

SpecGuard == InitGuard /\ [][NextGuard]_vars

NextMiddleware ==
  \/ Start
  \/ AdvanceClock
  \/ Middleware

SpecMiddleware == InitMiddleware /\ [][NextMiddleware]_vars

(* ------------------------------------------------------------------ *)
(* The SummaryAggregator                                               *)
(* ------------------------------------------------------------------ *)
MaxParts == 3
MaxImmediates == 2
MaxMessageCount == 2

\* Map.has, Map.set, Map.delete, and map.get(key) || fallback
Has(map, key) == key \in DOMAIN map
Put(map, key, value) == [k \in DOMAIN map \cup {key} |-> IF k = key THEN value ELSE map[k]]
Delete(map, key) == [k \in DOMAIN map \ {key} |-> map[k]]
GetOr(map, key, fallback) == IF key \in DOMAIN map THEN map[key] ELSE fallback

\* String.prototype.charCodeAt for the characters of the texts below
CharCodeOf == [A |-> 65, B |-> 66, a |-> 97, c |-> 99]

\* A 32-bit integer as its two 16-bit halves.  hashString keeps hash within 32
\* bits: << and & convert their result to a signed 32-bit integer.
Half == 65536
Int32(hi, lo) == [hi |-> hi, lo |-> lo]

\* hashString: hash = (hash << 5) - hash + char; hash = hash & hash, that is
\* 31 * hash + char modulo 2^32
hashStep(hash, char) ==
  LET low == hash.lo * 31 + char
  IN Int32((hash.hi * 31 + low \div Half) % Half, low % Half)

RECURSIVE hashLoop(_, _)
hashLoop(hash, str) ==
  IF str = <<>> THEN hash
  ELSE hashLoop(hashStep(hash, CharCodeOf[Head(str)]), Tail(str))

\* Number.prototype.toString(36): a sign and the digits, most significant first
RECURSIVE digits36(_)
digits36(n) == IF n < 36 THEN <<n>> ELSE Append(digits36(n \div 36), n % 36)

toString36(hash) ==
  IF hash.hi < Half \div 2 THEN [negative |-> FALSE, digits |-> digits36(hash.hi * Half + hash.lo)]
  ELSE IF hash.hi = Half \div 2 /\ hash.lo = 0
    THEN [negative |-> TRUE, digits |-> <<35, 18, 20, 0, 35, 20>>]
  ELSE [negative |-> TRUE, digits |-> digits36((Half - hash.hi - 1) * Half + (Half - hash.lo))]

hashString(str) == toString36(hashLoop(Int32(0, 0), str))

\* the callbacks of the setOn... methods; env.registered has the ones that are set
AllCallbacks ==
  {"complete", "tool", "toolFile", "question", "questionError", "thinking", "tokens",
   "sessionCompacted", "permission", "sessionDiff", "fileChange", "cleared"}

Registered(name) == name \in env.registered

\* what a callback finds in the aggregator when it is called
Seen(session, infos, parts, hashes) ==
  [currentSessionId |-> session, messages |-> infos, currentMessageParts |-> parts,
   partHashes |-> hashes]

\* a call of a callback, with its arguments
Invocation(name, args, seen) == [callback |-> name, args |-> args, seen |-> seen]

\* a callback handed to setImmediate, with the arguments it will be called with
Deferred(name, args) == [callback |-> name, args |-> args]

callNow(name, args) ==
  [invoked |-> IF Registered(name)
                 THEN <<Invocation(name, args,
                                   Seen(currentSessionId, messageInfos, currentMessageParts,
                                        partHashes))>>
                 ELSE <<>>,
   scheduled |-> <<>>]

\* setImmediate(() => callback(...)), when the callback is set
setImmediate(name, args) ==
  IF Registered(name) THEN [invoked |-> <<>>, scheduled |-> <<Deferred(name, args)>>]
  ELSE [invoked |-> <<>>, scheduled |-> <<>>]

\* what processEvent leaves behind for an observer: the callbacks it called, in
\* order, and the callbacks it handed to setImmediate
finish(event, invoked, scheduled) ==
  /\ call' = [op |-> "processEvent", event |-> event, invoked |-> invoked,
              scheduled |-> scheduled]
  /\ immediates' = immediates \o scheduled

\* startTypingIndicator without its test of the field: a second setInterval
startAgain(timer) == [set |-> TRUE, running |-> timer.running + 1]

\* startTypingIndicator returns at once when the field holds a timer, and else
\* keeps the timer of a new setInterval in the field
startTypingIndicator(timer) ==
  IF timer.set THEN timer ELSE [set |-> TRUE, running |-> timer.running + 1]

\* stopTypingIndicator: clearInterval of the timer the field holds
stopTypingIndicator(timer) ==
  IF timer.set THEN [set |-> FALSE, running |-> timer.running - 1] ELSE timer

anySession(sessionID) == TRUE

\* the test each handler starts with: sessionID !== this.currentSessionId returns
isCurrentSession(sessionID) == currentSessionId = Val(sessionID)

\* the return of a handler that did nothing
ignored(event) ==
  /\ finish(event, <<>>, <<>>)
  /\ UNCHANGED <<currentSessionId, currentMessageParts, pendingParts, messageInfos,
                 messageCount, lastUpdated, processedToolStates, typingTimer, partHashes,
                 history>>

keepToolStates == processedToolStates

\* processedToolStates.clear()
clearedToolStates == {}

\* a clear that cancels the callbacks handed to setImmediate
cancelImmediates(waiting) == <<>>

\* clear() keeps no handle of a setImmediate and calls no clearImmediate
afterClear(waiting) == waiting

\* clear(), but for currentSessionId = null: the cleared callback runs last, when
\* everything is wiped
clearBuffers ==
  /\ typingTimer' = stopTypingIndicator(typingTimer)
  /\ currentMessageParts' = EmptyMap
  /\ pendingParts' = EmptyMap
  /\ messageInfos' = EmptyMap
  /\ partHashes' = EmptyMap
  /\ processedToolStates' = clearedToolStates
  /\ messageCount' = 0
  /\ lastUpdated' = 0
  /\ history' = NoHistory
  /\ immediates' = afterClear(immediates)

clearedCallback ==
  IF Registered("cleared")
    THEN <<Invocation("cleared", <<>>, Seen(Null, EmptyMap, EmptyMap, EmptyMap))>>
    ELSE <<>>

\* setSession(sessionId)
setSession(sessionId) ==
  IF currentSessionId # Val(sessionId)
    THEN /\ clearBuffers
         /\ currentSessionId' = Val(sessionId)
         /\ call' = [op |-> "setSession", sessionId |-> sessionId,
                     invoked |-> clearedCallback]
    ELSE /\ call' = [op |-> "setSession", sessionId |-> sessionId, invoked |-> <<>>]
         /\ UNCHANGED <<currentSessionId, currentMessageParts, pendingParts, messageInfos,
                        messageCount, lastUpdated, processedToolStates, typingTimer,
                        partHashes, immediates, history>>

\* clear() called from outside
clearAggregator ==
  /\ clearBuffers
  /\ currentSessionId' = Null
  /\ call' = [op |-> "clear", invoked |-> clearedCallback]

\* handleMessageUpdated: !this.currentMessageParts.has(messageID)
registers(messageID) == ~Has(currentMessageParts, messageID)

dropPending(current, pending) == current

\* handleMessageUpdated: [...current, ...pending]
drainPending(current, pending) == current \o pending

RECURSIVE joinParts(_)
joinParts(parts) ==
  IF parts = <<>> THEN <<>> ELSE parts[1] \o joinParts(Tail(parts))

\* handleMessageUpdated: parts[parts.length - 1] || ""
lastPartOf(parts) == IF parts = <<>> THEN <<>> ELSE parts[Len(parts)]

completeBeforeTokens(tokens, complete) == complete \o tokens

\* handleMessageUpdated: the token callback, then the completion callback
completedCallbacks(tokens, complete) == tokens \o complete

handleMessageUpdated(event, time) ==
  LET info == event.properties.info
      messageID == info.id
  IN IF ~isCurrentSession(info.sessionID) THEN ignored(event)
     ELSE IF info.role # "assistant"
       THEN /\ messageInfos' = Put(messageInfos, messageID, info.role)
            /\ finish(event, <<>>, <<>>)
            /\ UNCHANGED <<currentSessionId, currentMessageParts, pendingParts, messageCount,
                           lastUpdated, processedToolStates, typingTimer, partHashes,
                           history>>
       ELSE LET infos == Put(messageInfos, messageID, info.role)
                first == registers(messageID)
                registered == IF first THEN Put(currentMessageParts, messageID, <<>>)
                              ELSE currentMessageParts
                started == IF first THEN startTypingIndicator(typingTimer) ELSE typingTimer
                thinking == IF first THEN setImmediate("thinking", <<info.sessionID>>)
                            ELSE [invoked |-> <<>>, scheduled |-> <<>>]
                pending == GetOr(pendingParts, messageID, <<>>)
                current == GetOr(registered, messageID, <<>>)
                drained == Put(registered, messageID, drainPending(current, pending))
                parts == GetOr(drained, messageID, <<>>)
                lastPart == lastPartOf(parts)
                seen == Seen(currentSessionId, infos, drained, partHashes)
                tokens == IF Registered("tokens") /\ info.tokens
                            THEN <<Invocation("tokens", <<>>, seen)>> ELSE <<>>
                complete == IF Registered("complete") /\ Len(lastPart) > 0
                              THEN <<Invocation("complete",
                                                <<currentSessionId.value, lastPart>>, seen)>>
                              ELSE <<>>
                remaining == Delete(drained, messageID)
            IN /\ pendingParts' = Delete(pendingParts, messageID)
               /\ messageCount' = IF first THEN messageCount + 1 ELSE messageCount
               /\ lastUpdated' = time
               /\ IF info.completed
                    THEN /\ currentMessageParts' = remaining
                         /\ messageInfos' = Delete(infos, messageID)
                         /\ partHashes' = Delete(partHashes, messageID)
                         /\ history' = [history EXCEPT
                                          !.texts = Delete(@, messageID),
                                          !.completed = IF complete = <<>> THEN @
                                                        ELSE @ \cup {messageID}]
                         /\ typingTimer' = IF DOMAIN remaining = {}
                                             THEN stopTypingIndicator(started) ELSE started
                         /\ finish(event,
                                   thinking.invoked \o completedCallbacks(tokens, complete),
                                   thinking.scheduled)
                    ELSE /\ currentMessageParts' = drained
                         /\ messageInfos' = infos
                         /\ typingTimer' = started
                         /\ finish(event, thinking.invoked, thinking.scheduled)
                         /\ UNCHANGED <<partHashes, history>>
               /\ UNCHANGED <<currentSessionId, processedToolStates>>

neverDuplicate(hashes, partHash) == FALSE

\* handleMessagePartUpdated: hashes.has(partHash)
isDuplicate(hashes, partHash) == partHash \in hashes

\* typeof x === "string" ? x : "", and x?.field of an absent x
stringOr(x) == IF x = Undefined THEN "" ELSE x.value

field(x, name) ==
  IF x = Undefined THEN Undefined
  ELSE IF name \in DOMAIN x.value THEN x.value[name] ELSE Undefined

alwaysPrepared(content, filePath, operation) ==
  Val([filename |-> <<operation, "_", filePath, ".txt">>])

\* prepareCodeFile: null when the text is larger than config.files.maxFileSizeKb;
\* a text is modelled by its line counts and by whether it is that large
prepareCodeFile(content, filePath, operation) ==
  IF content.oversized THEN Null
  ELSE Val([filename |-> <<operation, "_", filePath, ".txt">>])

\* extractFirstUpdatedFileFromTitle: a title is modelled by the first file it
\* lists as updated, "" when it lists none
extractFirstUpdatedFileFromTitle(title) == title.updated

\* countDiffChangesFromText
countDiffChangesFromText(text) ==
  [additions |-> text.additions, deletions |-> text.deletions]

NoFileContext == [fileData |-> Null, fileChange |-> Null]

\* prepareToolFileContext; paths are the paths normalizePathForDisplay shows
prepareToolFileContext(tool, input, title, metadata) ==
  IF tool = "write" /\ input # Undefined
    THEN LET filePath == stringOr(input.value.filePath)
             hasContent == input.value.content # Undefined
         IN IF filePath = "" \/ ~hasContent THEN NoFileContext
            ELSE [fileData |-> prepareCodeFile(input.value.content.value, filePath, "write"),
                  fileChange |-> Val([file |-> filePath,
                                      additions |-> input.value.content.value.lines,
                                      deletions |-> 0])]
  ELSE IF tool = "edit" /\ metadata # Undefined
    THEN LET filediff == metadata.value.filediff
             filePath == stringOr(field(filediff, "file"))
             diffText == metadata.value.diff
         IN IF filePath = "" \/ diffText = Undefined THEN NoFileContext
            ELSE [fileData |-> prepareCodeFile(diffText.value, filePath, "edit"),
                  fileChange |-> Val([file |-> filePath,
                                      additions |-> filediff.value.additions,
                                      deletions |-> filediff.value.deletions])]
  ELSE IF tool = "apply_patch"
    THEN LET filediff == field(metadata, "filediff")
             filePathFromInput ==
               IF stringOr(field(input, "filePath")) # ""
                 THEN stringOr(field(input, "filePath"))
                 ELSE stringOr(field(input, "path"))
             filePathFromTitle ==
               IF title = Undefined THEN ""
               ELSE extractFirstUpdatedFileFromTitle(title.value)
             filePath ==
               IF stringOr(field(filediff, "file")) # "" THEN stringOr(field(filediff, "file"))
               ELSE IF filePathFromInput # "" THEN filePathFromInput
               ELSE filePathFromTitle
             diffText ==
               IF field(metadata, "diff") # Undefined THEN field(metadata, "diff")
               ELSE field(input, "patchText")
         IN IF filePath = "" THEN NoFileContext
            ELSE [fileData |-> IF diffText # Undefined
                                 THEN prepareCodeFile(diffText.value, filePath, "edit")
                                 ELSE Null,
                  fileChange |->
                    IF filediff # Undefined
                      THEN Val([file |-> filePath,
                                additions |-> filediff.value.additions,
                                deletions |-> filediff.value.deletions])
                    ELSE IF diffText # Undefined
                      THEN Val([file |-> filePath,
                                additions |-> countDiffChangesFromText(diffText.value).additions,
                                deletions |-> countDiffChangesFromText(diffText.value).deletions])
                    ELSE Null]
  ELSE NoFileContext

\* `completed-${part.callID}`
completedKey(callID) == <<"completed-", callID>>

neverProcessed(callID) == FALSE

\* handleMessagePartUpdated: this.processedToolStates.has(completedKey)
isProcessed(callID) == completedKey(callID) \in processedToolStates

\* the callbacks of a tool part that completed for the first time, in call order
toolCallbacks(part) ==
  LET prepared == prepareToolFileContext(part.tool, part.state.input, part.state.title,
                                         part.state.metadata)
      seen == Seen(currentSessionId, messageInfos, currentMessageParts, partHashes)
      toolData == [sessionId |-> part.sessionID, messageId |-> part.messageID,
                   callId |-> part.callID, tool |-> part.tool,
                   hasFileAttachment |-> prepared.fileData # Null]
  IN (IF Registered("tool") THEN <<Invocation("tool", <<toolData>>, seen)>> ELSE <<>>)
     \o (IF prepared.fileData # Null /\ Registered("toolFile")
           THEN <<Invocation("toolFile",
                             <<[toolData EXCEPT !.hasFileAttachment = TRUE]>>, seen)>>
           ELSE <<>>)
     \o (IF prepared.fileChange # Null /\ Registered("fileChange")
           THEN <<Invocation("fileChange", <<prepared.fileChange.value>>, seen)>>
           ELSE <<>>)

neverQuestionError(part) == FALSE

\* handleMessagePartUpdated: the question tool reports an error
isQuestionError(part) == part.tool = "question" /\ part.state.status = "error"

handleMessagePartUpdated(event, time) ==
  LET part == event.properties.part
      messageID == part.messageID
  IN IF ~isCurrentSession(part.sessionID) THEN ignored(event)
     ELSE IF part.type = "text" /\ Len(part.text) > 0
       THEN LET partHash == hashString(part.text)
                hashes == GetOr(partHashes, messageID, {})
            IN /\ history' = [history EXCEPT
                              !.texts = Put(@, messageID,
                                            Append(GetOr(@, messageID, <<>>), part.text))]
               /\ finish(event, <<>>, <<>>)
               /\ UNCHANGED <<currentSessionId, messageInfos, messageCount,
                              processedToolStates>>
               /\ IF isDuplicate(hashes, partHash)
                    THEN UNCHANGED <<currentMessageParts, pendingParts, lastUpdated,
                                     typingTimer, partHashes>>
                    ELSE /\ partHashes' = Put(partHashes, messageID, hashes \cup {partHash})
                         /\ lastUpdated' = time
                         /\ IF Has(messageInfos, messageID)
                               /\ messageInfos[messageID] = "assistant"
                              THEN /\ currentMessageParts' =
                                        Put(currentMessageParts, messageID,
                                            Append(GetOr(currentMessageParts, messageID, <<>>),
                                                   part.text))
                                   /\ typingTimer' =
                                        IF Has(currentMessageParts, messageID) THEN typingTimer
                                        ELSE startTypingIndicator(typingTimer)
                                   /\ UNCHANGED pendingParts
                              ELSE /\ pendingParts' =
                                        Put(pendingParts, messageID,
                                            Append(GetOr(pendingParts, messageID, <<>>),
                                                   part.text))
                                   /\ UNCHANGED <<currentMessageParts, typingTimer>>
     ELSE IF part.type = "tool" /\ isQuestionError(part)
       THEN /\ finish(event, setImmediate("questionError", <<>>).invoked,
                   setImmediate("questionError", <<>>).scheduled)
            /\ UNCHANGED <<currentSessionId, currentMessageParts, pendingParts, messageInfos,
                           messageCount, lastUpdated, processedToolStates, typingTimer,
                           partHashes, history>>
     ELSE IF part.type = "tool" /\ part.state.status = "completed" /\ ~isProcessed(part.callID)
       THEN /\ processedToolStates' = processedToolStates \cup {completedKey(part.callID)}
            /\ lastUpdated' = time
            /\ history' = [history EXCEPT !.tools = @ \cup {part.callID}]
            /\ finish(event, toolCallbacks(part), <<>>)
            /\ UNCHANGED <<currentSessionId, currentMessageParts, pendingParts, messageInfos,
                           messageCount, typingTimer, partHashes>>
     ELSE /\ lastUpdated' = time
          /\ history' = [history EXCEPT
                           !.tools = IF part.type = "tool" /\ part.state.status = "completed"
                                       THEN @ \cup {part.callID} ELSE @]
          /\ finish(event, <<>>, <<>>)
          /\ UNCHANGED <<currentSessionId, currentMessageParts, pendingParts, messageInfos,
                         messageCount, processedToolStates, typingTimer, partHashes>>

handleSessionStatus(event) == ignored(event)

handleSessionIdle(event) ==
  IF ~isCurrentSession(event.properties.sessionID) THEN ignored(event)
  ELSE /\ typingTimer' = stopTypingIndicator(typingTimer)
       /\ finish(event, <<>>, <<>>)
       /\ UNCHANGED <<currentSessionId, currentMessageParts, pendingParts, messageInfos,
                      messageCount, lastUpdated, processedToolStates, partHashes, history>>

\* the handlers that do nothing but hand a callback to setImmediate
deferOnly(event, name, args) ==
  /\ finish(event, setImmediate(name, args).invoked, setImmediate(name, args).scheduled)
  /\ UNCHANGED <<currentSessionId, currentMessageParts, pendingParts, messageInfos,
                 messageCount, lastUpdated, processedToolStates, typingTimer, partHashes,
                 history>>

handleSessionCompacted(event) ==
  IF ~isCurrentSession(event.properties.sessionID) THEN ignored(event)
  ELSE deferOnly(event, "sessionCompacted", <<event.properties.sessionID>>)

handleQuestionAsked(event) ==
  IF ~isCurrentSession(event.properties.sessionID) THEN ignored(event)
  ELSE deferOnly(event, "question", <<event.properties.id>>)

handleSessionDiff(event) ==
  IF ~isCurrentSession(event.properties.sessionID) THEN ignored(event)
  ELSE deferOnly(event, "sessionDiff", <<event.properties.sessionID>>)

handlePermissionAsked(event) ==
  IF ~isCurrentSession(event.properties.sessionID) THEN ignored(event)
  ELSE deferOnly(event, "permission", <<event.properties.id>>)

\* processEvent: the switch on event.type; time is Date.now() at the call
processEvent(event, time) ==
  CASE event.type = "message.updated" -> handleMessageUpdated(event, time)
    [] event.type = "message.part.updated" -> handleMessagePartUpdated(event, time)
    [] event.type = "session.status" -> handleSessionStatus(event)
    [] event.type = "session.idle" -> handleSessionIdle(event)
    [] event.type = "session.compacted" -> handleSessionCompacted(event)
    [] event.type = "question.asked" -> handleQuestionAsked(event)
    [] event.type = "session.diff" -> handleSessionDiff(event)
    [] event.type = "permission.asked" -> handlePermissionAsked(event)
    [] OTHER -> ignored(event)

\* the event loop runs the oldest callback handed to setImmediate; the callback of
\* session.compacted is called when getCurrentProject() has a project
runImmediate(project) ==
  /\ immediates # <<>>
  /\ immediates' = Tail(immediates)
  /\ call' = [op |-> "immediate",
              invoked |-> IF Head(immediates).callback = "sessionCompacted" /\ ~project
                            THEN <<>>
                            ELSE <<Invocation(Head(immediates).callback, Head(immediates).args,
                                              Seen(currentSessionId, messageInfos,
                                                   currentMessageParts, partHashes))>>]
  /\ UNCHANGED <<currentSessionId, currentMessageParts, pendingParts, messageInfos,
                 messageCount, lastUpdated, processedToolStates, typingTimer, partHashes,
                 history>>

\* the events the backend sends
AssistantTexts == {<<"A", "a">>, <<"B", "B">>, <<"c">>}

MessageUpdatedEvents ==
  {[type |-> "message.updated",
    properties |-> [info |-> [id |-> m, sessionID |-> s, role |-> r, completed |-> d,
                              tokens |-> k]]] :
     m \in env.messageIds, s \in env.eventSessions, r \in env.roles, d \in BOOLEAN,
     k \in env.tokens}

TextPartEvents ==
  {[type |-> "message.part.updated",
    properties |-> [part |-> [type |-> "text", sessionID |-> s, messageID |-> m,
                              text |-> x]]] :
     m \in env.messageIds, s \in env.eventSessions, x \in env.texts}

WriteInputs ==
  {Undefined,
   Val([filePath |-> Val("src/a.ts"), content |-> Val([lines |-> 2, oversized |-> FALSE])]),
   Val([filePath |-> Val("src/a.ts"), content |-> Val([lines |-> 2, oversized |-> TRUE])]),
   Val([filePath |-> Undefined, content |-> Val([lines |-> 2, oversized |-> FALSE])])}

ToolPartEvents ==
  {[type |-> "message.part.updated",
    properties |-> [part |-> [type |-> "tool", sessionID |-> s, messageID |-> m,
                              callID |-> c, tool |-> tl.tool,
                              state |-> [status |-> st, input |-> tl.input,
                                         title |-> tl.title,
                                         metadata |-> tl.metadata]]]] :
     m \in env.messageIds, s \in env.eventSessions, c \in env.callIds,
     st \in {"running", "completed", "error"},
     tl \in env.tools}

\* a diff of one added and one removed line, small or too large for a file
Diff(oversized) == [additions |-> 1, deletions |-> 1, oversized |-> oversized]

Filediff(file) == Val([file |-> Val(file), additions |-> 1, deletions |-> 0])

\* the metadata of a completed edit
EditMetadata ==
  {Undefined,
   Val([filediff |-> Filediff("src/a.ts"), diff |-> Val(Diff(FALSE))]),
   Val([filediff |-> Filediff("src/a.ts"), diff |-> Val(Diff(TRUE))]),
   Val([filediff |-> Undefined, diff |-> Val(Diff(FALSE))]),
   Val([filediff |-> Filediff("src/a.ts"), diff |-> Undefined])}

PatchInput(filePath, path, patchText) ==
  Val([filePath |-> filePath, path |-> path, patchText |-> patchText])

\* the tool of a part with the input, title and metadata of its state
Tool(tool, input, title, metadata) ==
  [tool |-> tool, input |-> input, title |-> title, metadata |-> metadata]

\* apply_patch with the file and the diff in its metadata, in its input, or with
\* the file in its title, and with one of the two or both missing
PatchTools ==
  {Tool("apply_patch", Undefined, Undefined, Undefined),
   Tool("apply_patch", Undefined, Undefined,
        Val([filediff |-> Filediff("src/a.ts"), diff |-> Val(Diff(FALSE))])),
   Tool("apply_patch", Undefined, Undefined,
        Val([filediff |-> Filediff("src/a.ts"), diff |-> Undefined])),
   Tool("apply_patch", PatchInput(Undefined, Val("src/a.ts"), Val(Diff(FALSE))),
        Undefined, Undefined),
   Tool("apply_patch", PatchInput(Undefined, Undefined, Val(Diff(FALSE))),
        Val([updated |-> "README.md"]), Undefined),
   Tool("apply_patch", PatchInput(Undefined, Undefined, Val(Diff(FALSE))),
        Val([updated |-> ""]), Undefined),
   Tool("apply_patch", PatchInput(Val("src/a.ts"), Undefined, Val(Diff(TRUE))),
        Undefined, Undefined)}

Bash == Tool("bash", Undefined, Undefined, Undefined)

Question == Tool("question", Undefined, Undefined, Undefined)

\* the tools without a file and the write tool
Tools ==
  {Bash, Question} \cup {Tool("write", i, Undefined, Undefined) : i \in WriteInputs}

\* the tools that may come with a file
FileTools ==
  {Bash}
  \cup {Tool("write", i, Undefined, Undefined) : i \in WriteInputs}
  \cup {Tool("edit", Undefined, Undefined, m) : m \in EditMetadata}
  \cup PatchTools

SessionEvents ==
  {[type |-> ty, properties |-> [sessionID |-> s, id |-> "request-1"]] :
     ty \in env.sessionEventTypes, s \in env.eventSessions}

\* Date.now() at the arrival of an event: the clock of the process, which may
\* have moved on since the event before
ArrivalTimes == {t \in {now, now + 1} : t <= env.clock}

\* the event loop runs the callbacks handed to setImmediate before more than
\* MaxImmediates of them wait
arrives(event) ==
  /\ \E time \in ArrivalTimes :
       /\ now' = time
       /\ processEvent(event, time)
  /\ Len(immediates') <= MaxImmediates
  /\ UNCHANGED <<batcherVars, env, state, heap>>

\* the backend opens no more than MaxMessageCount messages in a session and sends
\* no more than MaxParts text parts for a message
MessageUpdated ==
  \E event \in MessageUpdatedEvents :
    /\ (/\ isCurrentSession(event.properties.info.sessionID)
        /\ event.properties.info.role = "assistant"
        /\ registers(event.properties.info.id)) => messageCount < MaxMessageCount
    /\ arrives(event)

TextPart ==
  \E event \in TextPartEvents :
    /\ isCurrentSession(event.properties.part.sessionID) =>
         Len(GetOr(history.texts, event.properties.part.messageID, <<>>)) < MaxParts
    /\ arrives(event)

ToolPart == \E event \in ToolPartEvents : arrives(event)

SessionEvent == \E event \in SessionEvents : arrives(event)

SetSession ==
  /\ \E sessionId \in env.currentSessions : setSession(sessionId)
  /\ UNCHANGED <<batcherVars, env, state, now, heap>>

ClearAggregator ==
  /\ clearAggregator
  /\ UNCHANGED <<batcherVars, env, state, now, heap>>

RunImmediate ==
  /\ \E project \in BOOLEAN : runImmediate(project)
  /\ UNCHANGED <<batcherVars, env, state, now, heap>>

SessionEventTypes ==
  {"session.status", "session.idle", "session.compacted", "question.asked", "session.diff",
   "permission.asked", "question.replied"}

InitAggregatorEnv(e) ==
  /\ InitBatcher
  /\ intervalSeconds = normalizeIntervalSeconds(0)
  /\ InitInteraction
  /\ InitAggregator
  /\ env = [sessions |-> {}, items |-> 0, outcomes |-> {TRUE}, long |-> FALSE,
            kinds |-> {}, expected |-> {}, chats |-> {}, metadata |-> {}] @@ e

\* tool parts in two sessions, with the file callback set or not
InitTools ==
  \E r \in {AllCallbacks, AllCallbacks \ {"toolFile"}} :
    InitAggregatorEnv([messageIds |-> {"m1"}, eventSessions |-> {"s1", "s2"},
                       currentSessions |-> {"s1", "s2"}, roles |-> {"assistant"},
                       tokens |-> {TRUE}, texts |-> {}, callIds |-> {"c1", "c2"},
                       tools |-> Tools, sessionEventTypes |-> {}, clock |-> 0,
                       registered |-> r])

NextTools ==
  \/ ToolPart
  \/ SetSession
  \/ ClearAggregator

SpecTools == InitTools /\ [][NextTools]_vars

\* the tool parts of one session with and without a file, with the file callback
\* set or not
InitFiles ==
  \E r \in {AllCallbacks, AllCallbacks \ {"toolFile"}} :
    InitAggregatorEnv([messageIds |-> {"m1"}, eventSessions |-> {"s1"},
                       currentSessions |-> {"s1"}, roles |-> {"assistant"},
                       tokens |-> {TRUE}, texts |-> {}, callIds |-> {"c1", "c2"},
                       tools |-> FileTools, sessionEventTypes |-> {}, clock |-> 0,
                       registered |-> r])

NextFiles ==
  \/ ToolPart
  \/ SetSession
  \/ ClearAggregator

SpecFiles == InitFiles /\ [][NextFiles]_vars

\* one message of one session: its message.updated events and its text parts in
\* every order, with the token callback set or not
InitStream ==
  \E r \in {AllCallbacks, AllCallbacks \ {"tokens"}} :
    InitAggregatorEnv([messageIds |-> {"m1"}, eventSessions |-> {"s1"},
                       currentSessions |-> {"s1"}, roles |-> {"assistant", "user"},
                       tokens |-> BOOLEAN, texts |-> AssistantTexts, callIds |-> {},
                       tools |-> {}, sessionEventTypes |-> {}, clock |-> 0,
                       registered |-> r])

NextStream ==
  \/ SetSession
  \/ MessageUpdated
  \/ TextPart
  \/ RunImmediate

SpecStream == InitStream /\ [][NextStream]_vars

\* every kind of event, for the current session and for another one
InitSessions ==
  InitAggregatorEnv([messageIds |-> {"m1"}, eventSessions |-> {"s1", "s2"},
                     currentSessions |-> {"s1"}, roles |-> {"assistant"},
                     tokens |-> {TRUE}, texts |-> {<<"c">>}, callIds |-> {"c1"},
                     tools |-> {Bash},
                     sessionEventTypes |-> SessionEventTypes
                                             \ {"question.replied", "session.status"},
                     clock |-> 1, registered |-> AllCallbacks])

NextSessions ==
  \/ SetSession
  \/ MessageUpdated
  \/ TextPart
  \/ ToolPart
  \/ SessionEvent

SpecSessions == InitSessions /\ [][NextSessions]_vars

\* messages, texts and tools of two sessions, and the switch from one session to
\* the other
InitSwitch ==
  \E r \in {AllCallbacks, AllCallbacks \ {"cleared"}} :
    InitAggregatorEnv([messageIds |-> {"m1"}, eventSessions |-> {"s1", "s2"},
                       currentSessions |-> {"s1", "s2"}, roles |-> {"assistant"},
                       tokens |-> {TRUE}, texts |-> {<<"c">>}, callIds |-> {"c1"},
                       tools |-> {Bash},
                       sessionEventTypes |-> {}, clock |-> 1, registered |-> r])

NextSwitch ==
  \/ SetSession
  \/ ClearAggregator
  \/ MessageUpdated
  \/ TextPart
  \/ ToolPart
  \/ RunImmediate

SpecSwitch == InitSwitch /\ [][NextSwitch]_vars

\* the events that make the aggregator hand a callback to setImmediate, and the
\* turns of the event loop that run the callbacks
InitDeferred ==
  \E r \in {AllCallbacks, AllCallbacks \ {"question", "thinking"}} :
    InitAggregatorEnv([messageIds |-> {"m1"}, eventSessions |-> {"s1"},
                       currentSessions |-> {"s1"}, roles |-> {"assistant"},
                       tokens |-> {TRUE}, texts |-> {}, callIds |-> {"c1"},
                       tools |-> {Question},
                       sessionEventTypes |-> SessionEventTypes, clock |-> 0,
                       registered |-> r])

NextDeferred ==
  \/ SetSession
  \/ MessageUpdated
  \/ ToolPart
  \/ SessionEvent
  \/ RunImmediate

SpecDeferred == InitDeferred /\ [][NextDeferred]_vars

\* the events that hand a callback to setImmediate, clear and the switch to
\* another session before the callback has run
InitTeardown ==
  InitAggregatorEnv([messageIds |-> {"m1"}, eventSessions |-> {"s1"},
                     currentSessions |-> {"s1", "s2"}, roles |-> {"assistant"},
                     tokens |-> {TRUE}, texts |-> {}, callIds |-> {},
                     tools |-> {},
                     sessionEventTypes |-> {"question.asked", "permission.asked",
                                            "session.diff"},
                     clock |-> 0, registered |-> AllCallbacks])

NextTeardown ==
  \/ SetSession
  \/ ClearAggregator
  \/ MessageUpdated
  \/ SessionEvent
  \/ RunImmediate

\* the event loop runs every callback handed to setImmediate
SpecTeardown == InitTeardown /\ [][NextTeardown]_vars /\ WF_vars(RunImmediate)

\* two messages that stream at the same time, session.idle and clear
InitTyping ==
  InitAggregatorEnv([messageIds |-> {"m1", "m2"}, eventSessions |-> {"s1", "s2"},
                     currentSessions |-> {"s1"}, roles |-> {"assistant", "user"},
                     tokens |-> {FALSE}, texts |-> {<<"c">>}, callIds |-> {},
                     tools |-> {}, sessionEventTypes |-> {"session.idle"},
                     clock |-> 0, registered |-> AllCallbacks \ {"thinking"}])

NextTyping ==
  \/ SetSession
  \/ ClearAggregator
  \/ MessageUpdated
  \/ TextPart
  \/ SessionEvent

SpecTyping == InitTyping /\ [][NextTyping]_vars

(* ------------------------------------------------------------------ *)
(* What was handed to sendText / sendFile                              *)
(* ------------------------------------------------------------------ *)
\* the position of an accepted item in the order of acceptance
TagIndex(tag) == CHOOSE k \in 1..Len(Tags) : Tags[k] = tag

\* the accepted items one send carries, in the order they appear in it
TagSeq(record) ==
  IF record.kind = "file" THEN <<record.fileData.filename>>
  ELSE SelectSeq(record.text, LAMBDA c : c \notin Whitespace)

\* the accepted items handed to sendText / sendFile for a session, in call order
RECURSIVE SentTagsOf(_, _)
SentTagsOf(log, sessionId) ==
  IF log = <<>> THEN <<>>
  ELSE (IF Head(log).session = sessionId THEN TagSeq(Head(log)) ELSE <<>>)
       \o SentTagsOf(Tail(log), sessionId)

\* the accepted items handed to sendText / sendFile so far
SentTagSet == UNION {ItemTags(sent[k]) : k \in 1..Len(sent)}

\* the accepted items so far
AcceptedTags == {Tags[k] : k \in 1..accepted}

\* the accepted items waiting in a queue
QueuedTags == UNION {TagsOf(queues[s]) : s \in Sessions}

\* the accepted items a task of a chain has yet to hand to sendText / sendFile
PendingTags ==
  UNION {UNION {TagsOf(IF sessionTasks[s][i].pc = "awaiting"
                         THEN Tail(sessionTasks[s][i].items)
                         ELSE sessionTasks[s][i].items) :
                  i \in 1..Len(sessionTasks[s])} :
           s \in Sessions}

\* the sendText / sendFile calls of a session that have not settled
Outstanding(sessionId) ==
  {i \in 1..Len(sessionTasks[sessionId]) : sessionTasks[sessionId][i].pc = "awaiting"}

\* a flushSession for the session is chained, or follows in a flushAll under way
FlushScheduled(sessionId) ==
  \E s \in Sessions : \E i \in 1..Len(sessionTasks[s]) :
     /\ sessionTasks[s][i].op = "flush"
     /\ \/ s = sessionId /\ sessionTasks[s][i].pc = "pending"
        \/ \E j \in 1..Len(sessionTasks[s][i].cont) : sessionTasks[s][i].cont[j] = sessionId

\* the accepted items of the sends dropped so far
DroppedTags == {d.tag : d \in dropped}

\* every accepted item is queued, waits in a task, was handed to sendText /
\* sendFile, was dropped as stale or was deleted from a queue by a clear
NothingLost ==
  AcceptedTags = QueuedTags \cup PendingTags \cup SentTagSet \cup DroppedTags \cup cleared

\* the flushSessionInternal at the head of the session's chain starts and takes the queue
FlushStarts(sessionId, reason) ==
  /\ queues[sessionId] # <<>>
  /\ queues'[sessionId] = <<>>
  /\ generation' = generation
  /\ sessionTasks[sessionId][1].reason = reason

\* texts joined by blank lines
RECURSIVE JoinBlank(_)
JoinBlank(texts) ==
  IF Len(texts) = 1 THEN texts[1]
  ELSE texts[1] \o <<"\n", "\n">> \o JoinBlank(Tail(texts))

(* ------------------------------------------------------------------ *)
(* C1                                                                  *)
(* ------------------------------------------------------------------ *)
\* C1: with the interval fixed, the items of a session reach sendText / sendFile
\* in the order they were enqueued: inside a merged text and from one call to
\* the next, a file staying between the texts enqueued around it
C1_EnqueueOrderPreserved ==
  \A s \in Sessions :
    LET ts == SentTagsOf(sent, s)
    IN \A i, j \in 1..Len(ts) : i < j => TagIndex(ts[i]) < TagIndex(ts[j])

\* text, file, text of one session were queued and sent as three calls in that order
C1_Witness ==
  /\ intervalSeconds > 0
  /\ Len(sent) = 3
  /\ sent[1].kind = "text" /\ sent[2].kind = "file" /\ sent[3].kind = "text"
  /\ SentTagsOf(sent, "s1") = <<"a", "b", "c">>

(* ------------------------------------------------------------------ *)
(* C2                                                                  *)
(* ------------------------------------------------------------------ *)
\* C2: an item deleted from a queue by clearAll or clearSession is never handed
\* to sendText / sendFile, and when clearAll returns no session has a pending
\* timer or a queue left; when clearSession returns, its session has neither
C2_ClearedNeverSent ==
  [][/\ cleared' \cap SentTagSet' = {}
     /\ (generation' # generation /\ lastClear' = "all")
          => \A s \in Sessions : timers'[s] = NoTimer /\ queues'[s] = <<>>
     /\ \A s \in Sessions :
          (generation' # generation /\ lastClear' = s)
            => timers'[s] = NoTimer /\ queues'[s] = <<>>]_vars

\* clearAll discarded a queued item while its timer was pending, and an item
\* enqueued after it was sent
C2_Witness ==
  /\ lastClear = "all"
  /\ "a" \in cleared
  /\ "b" \in SentTagSet
  /\ \A s \in Sessions : timers[s] = NoTimer

(* ------------------------------------------------------------------ *)
(* C3                                                                  *)
(* ------------------------------------------------------------------ *)
\* C3: no call of sendText / sendFile is made for a send whose captured
\* generation is older than the generation at the time of the call: after a
\* clear, the remaining sends of a flush in progress and the immediate sends
\* waiting in a chain are dropped
C3_StaleSendsDropped ==
  \A k \in 1..Len(sent) : ~sent[k].stale

\* a flush sent its first item, a clear ran during that send, and the second
\* item of the flush was dropped
C3_Witness ==
  /\ intervalSeconds > 0
  /\ generation = 1
  /\ "a" \in SentTagSet
  /\ [session |-> "s1", tag |-> "b"] \in dropped

(* ------------------------------------------------------------------ *)
(* C4                                                                  *)
(* ------------------------------------------------------------------ *)
\* C4: when the only clear so far is one clearSession, every send dropped so
\* far is a send of the session that was cleared
C4_OtherSessionsKept ==
  (generation = 1 /\ lastClear \in Sessions)
    => \A d \in dropped : d.session = lastClear

(* ------------------------------------------------------------------ *)
(* C5                                                                  *)
(* ------------------------------------------------------------------ *)
\* C5: whatever the interleaving of enqueue, enqueueFile, timer expiry,
\* flushSession, flushAll and setIntervalSeconds, a session never has more than
\* one sendText / sendFile call started and not yet settled
C5_OneOutstandingSend ==
  \A s \in Sessions : Cardinality(Outstanding(s)) <= 1

\* a send of a session is outstanding while a second task waits behind it in
\* the chain, and the other session has a send outstanding too
C5_Witness ==
  /\ Len(sessionTasks["s1"]) >= 2
  /\ Outstanding("s1") = {1}
  /\ Outstanding("s2") = {1}

(* ------------------------------------------------------------------ *)
(* C10                                                                 *)
(* ------------------------------------------------------------------ *)
\* C10: every accepted item stays queued, waits in a task or has been handed to
\* sendText / sendFile (none is lost); a change of the interval leaves the
\* queues as they are; a change to 0 cancels every timer and schedules a flush
\* for every session with a queue; a change to a positive n gives every session
\* with a queue a timer with a full n seconds to run
C10_IntervalChangeKeepsItems ==
  [][/\ AcceptedTags' = QueuedTags' \cup PendingTags' \cup SentTagSet'
     /\ (intervalSeconds' = 0)
          => \A s \in Sessions : queues'[s] # <<>> => FlushScheduled(s)'
     /\ (intervalSeconds' # intervalSeconds)
          => /\ queues' = queues
             /\ (intervalSeconds' = 0) => \A s \in Sessions : timers'[s] = NoTimer
             /\ (intervalSeconds' > 0)
                  => \A s \in Sessions :
                       timers'[s] = IF queues[s] # <<>> \/ timers[s] # NoTimer
                                      THEN intervalSeconds' * 1000 ELSE NoTimer]_vars

\* the interval was set to 0 while both sessions had items queued: the timers
\* are gone, the queues are still there and their flush is scheduled
C10_Witness ==
  /\ intervalSeconds = 0
  /\ intervalChanged
  /\ \A s \in Sessions : queues[s] # <<>> /\ timers[s] = NoTimer /\ FlushScheduled(s)

(* ------------------------------------------------------------------ *)
(* C6                                                                  *)
(* ------------------------------------------------------------------ *)
\* C6: an item whose send rejected is handed to sendText / sendFile once only,
\* and a rejection loses nothing: the items after it in the flush and the
\* items of the tasks chained behind it are still waiting to be sent, were
\* sent, or were discarded by a clear
C6_RejectionDoesNotAbort ==
  /\ \A k \in 1..Len(sent) :
       sent[k].rejected =>
         \A m \in 1..Len(sent) : m # k => ItemTags(sent[m]) \cap ItemTags(sent[k]) = {}
  /\ NothingLost

\* the first send of a flush rejected and the flush goes on to its next item,
\* with a later task waiting behind it in the chain
C6_Witness ==
  /\ Len(sent) = 1
  /\ sent[1].rejected
  /\ Len(sessionTasks["s1"]) = 2
  /\ sessionTasks["s1"][1].op = "flush"
  /\ sessionTasks["s1"][1].pc = "resumed"
  /\ sessionTasks["s1"][2].pc = "pending"

(* ------------------------------------------------------------------ *)
(* C8                                                                  *)
(* ------------------------------------------------------------------ *)
\* C8: in batched mode an enqueue arms the timer of its session with the full
\* interval when none is pending and leaves a pending timer as it is; a pending
\* timer only counts down, and its flush is chained when it has counted down
\* to 0; that flush cancels the timer and takes the whole queue, and a queue of
\* texts is handed to sendText as one text, joined by blank lines
C8_TimerArmedOnce ==
  [][\A s \in Sessions :
       /\ (Len(queues'[s]) = Len(queues[s]) + 1)
            => timers'[s] = IF timers[s] = NoTimer
                              THEN intervalSeconds * 1000 ELSE timers[s]
       /\ (timers[s] # NoTimer /\ timers'[s] # NoTimer /\ timers'[s] # timers[s])
            => timers'[s] = timers[s] - 1000
       /\ (/\ Len(sessionTasks'[s]) = Len(sessionTasks[s]) + 1
           /\ sessionTasks'[s][Len(sessionTasks'[s])].reason = "interval_elapsed")
            => timers[s] = 0 /\ timers'[s] = NoTimer
       /\ FlushStarts(s, "interval_elapsed")
            => /\ timers'[s] = NoTimer
               /\ TagsOf(queues[s]) \subseteq PendingTags' \cup SentTagSet'
               /\ (\A j \in 1..Len(queues[s]) : queues[s][j].kind = "text")
                    => /\ Len(sent') = Len(sent) + 1
                       /\ sent'[Len(sent')].text =
                            JoinBlank([j \in 1..Len(queues[s]) |-> queues[s][j].text])
                       /\ PendingTags' = PendingTags]_vars

\* two texts were queued and the timer flush handed them to sendText as one
\* text, joined by a blank line
C8_Witness ==
  /\ intervalSeconds = 2
  /\ Len(sessionTasks["s1"]) = 1
  /\ sessionTasks["s1"][1].reason = "interval_elapsed"
  /\ sessionTasks["s1"][1].pc = "awaiting"
  /\ Len(sent) = 1
  /\ sent[1].text = <<"a", "\n", "\n", "b">>
  /\ queues["s1"] = <<>>

(* ------------------------------------------------------------------ *)
(* C9                                                                  *)
(* ------------------------------------------------------------------ *)
\* C9: the flush of a flushSession call cancels the timer of the session and
\* takes the whole queue; no item is handed to sendText / sendFile twice, and a
\* pending timer always belongs to a queue of items never sent
C9_FlushSessionSendsOnce ==
  [][/\ \A k, m \in 1..Len(sent') :
          k # m => ItemTags(sent'[k]) \cap ItemTags(sent'[m]) = {}
     /\ \A s \in Sessions :
          /\ (timers'[s] # NoTimer)
               => queues'[s] # <<>> /\ TagsOf(queues'[s]) \cap SentTagSet' = {}
          /\ FlushStarts(s, "test_flush")
               => /\ timers'[s] = NoTimer
                  /\ TagsOf(queues[s]) \subseteq PendingTags' \cup SentTagSet']_vars

\* the flush of a flushSession call took the queue while the timer of the
\* session was pending: the send is under way, the queue and the timer are gone
C9_Witness ==
  /\ intervalSeconds = 2
  /\ Len(sessionTasks["s1"]) = 1
  /\ sessionTasks["s1"][1].reason = "test_flush"
  /\ sessionTasks["s1"][1].pc = "awaiting"
  /\ SentTagSet = {"a", "b"}
  /\ queues["s1"] = <<>>
  /\ timers["s1"] = NoTimer

(* ------------------------------------------------------------------ *)
(* C7                                                                  *)
(* ------------------------------------------------------------------ *)
\* C7: every text handed to sendText has at most TELEGRAM_MESSAGE_MAX_LENGTH
\* characters, in batched mode and in immediate mode
C7_TextsWithinLimit ==
  \A k \in 1..Len(sent) :
    sent[k].kind = "text" => Len(sent[k].text) <= TELEGRAM_MESSAGE_MAX_LENGTH

\* the same for the texts of a flush, which packMessages builds
BatchedTextsWithinLimit ==
  intervalSeconds > 0 => C7_TextsWithinLimit

\* two texts of 3000 characters queued for one session are flushed as two sends
TwoLongTextsTwoSends ==
  buildFlushItems(<<TextItem(Rep("a", 3000)), TextItem(Rep("b", 3000))>>)
    = <<TextItem(Rep("a", 3000)), TextItem(Rep("b", 3000))>>

(* ------------------------------------------------------------------ *)
(* C11, C12: packing and splitting                                     *)
(* ------------------------------------------------------------------ *)
\* batch.split("\n\n")
RECURSIVE splitOnBlankLine(_)
splitOnBlankLine(t) ==
  LET hits == {i \in 1..(Len(t) - 1) : t[i] = "\n" /\ t[i + 1] = "\n"}
  IN IF hits = {} THEN <<t>>
     ELSE LET i == CHOOSE h \in hits : \A g \in hits : h <= g
          IN <<SubSeq(t, 1, i - 1)>> \o splitOnBlankLine(SubSeq(t, i + 2, Len(t)))

RECURSIVE Unpacked(_)
Unpacked(batches) ==
  IF batches = <<>> THEN <<>>
  ELSE splitOnBlankLine(Head(batches)) \o Unpacked(Tail(batches))

HasBlankLine(t) == \E i \in 1..(Len(t) - 1) : t[i] = "\n" /\ t[i + 1] = "\n"

\* C11 as stated: for every list of text entries of at most 4096 characters,
\* splitting the packed batches on "\n\n" and concatenating the pieces in order
\* gives back the list.
C11_PackRoundTrip ==
  call.op = "packMessages" => Unpacked(call.result) = call.messages

\* C11: the packed batches of a list of entries none of which holds a blank line
\* split on "\n\n" back into exactly that list.
C11_PackRoundTripNoBlankLine ==
  (/\ call.op = "packMessages"
   /\ \A k \in 1..Len(call.messages) : ~HasBlankLine(call.messages[k]))
    => Unpacked(call.result) = call.messages

\* three entries without a blank line were packed into two batches
C11_Witness ==
  /\ call.op = "packMessages"
  /\ \A k \in 1..Len(call.messages) : ~HasBlankLine(call.messages[k])
  /\ Len(call.messages) = 3
  /\ Len(call.result) = 2

\* the cut a rule asks for: the offset of the last newline at or before the limit,
\* or the limit when the rule finds that newline too early or there is none
CutBy(remaining, limit, halfIsTooEarly) ==
  LET at == {i \in 0..limit : i < Len(remaining) /\ remaining[i + 1] = "\n"}
  IN IF at = {} THEN limit
     ELSE LET last == CHOOSE i \in at : \A j \in at : j <= i
          tooEarly == IF halfIsTooEarly THEN 2 * last <= limit
                                             ELSE 2 * last < limit
          IN IF tooEarly THEN limit ELSE last

RECURSIVE ChunksBy(_, _, _)
ChunksBy(remaining, limit, halfIsTooEarly) ==
  IF Len(remaining) > limit
    THEN LET cut == CutBy(remaining, limit, halfIsTooEarly)
         IN <<SubSeq(remaining, 1, cut)>>
            \o ChunksBy(stripLeadingNewlines(SubSeq(remaining, cut + 1, Len(remaining))),
                        limit, halfIsTooEarly)
    ELSE IF Len(remaining) > 0 THEN <<remaining>> ELSE <<>>

ChunksWithinLimit ==
  \A k \in 1..Len(call.result) :
    /\ Len(call.result[k]) > 0
    /\ Len(call.result[k]) <= call.limit
    /\ k > 1 => call.result[k][1] # "\n"

\* C12 as stated: each cut of a long text is at the last newline at or before the
\* limit, or at the limit when that newline lies at or before half the limit or
\* there is none; the remainder loses its leading newlines; every chunk is non-empty
\* and within the limit.
C12_CutAtLastNewline ==
  call.op = "splitLongText" =>
    /\ call.result = ChunksBy(call.text, call.limit, TRUE)
    /\ ChunksWithinLimit

\* C12: each cut of a long text is at the last newline at or before the limit, or
\* at the limit when that newline lies strictly before half the limit or there is
\* none; the remainder loses its leading newlines; every chunk is non-empty and
\* within the limit.
C12_CutAtLastNewlineAfterHalf ==
  call.op = "splitLongText" =>
    /\ call.result = ChunksBy(call.text, call.limit, FALSE)
    /\ ChunksWithinLimit

\* a long text was cut at a newline in the second half of the limit
C12_Witness ==
  /\ call.op = "splitLongText"
  /\ Len(call.text) > call.limit
  /\ Len(call.result) >= 2
  /\ Len(call.result[1]) < call.limit
  /\ call.text[Len(call.result[1]) + 1] = "\n"

(* ------------------------------------------------------------------ *)
(* C13, C20: InteractionManager.start and transition                   *)
(* ------------------------------------------------------------------ *)
StateFields == {"kind", "expectedInput", "allowedCommands", "metadata", "createdAt",
                "expiresAt"}

\* the manager holds nothing or one interaction state
AtMostOneState == state = NoState \/ DOMAIN state = StateFields

\* the state a start asks for
Requested(options, time) ==
  [kind |-> options.kind.value,
   expectedInput |-> options.expectedInput.value,
   allowedCommands |-> IF options.allowedCommands = Undefined
                         THEN DEFAULT_ALLOWED_INTERACTION_COMMANDS
                         ELSE normalizeAllowedCommands(options.allowedCommands),
   metadata |-> IF options.metadata = Undefined THEN {} ELSE options.metadata.value,
   createdAt |-> time,
   expiresAt |-> IF options.expiresInMs = Undefined THEN Null
                 ELSE Val(time + options.expiresInMs.value)]

\* C13: the manager holds at most one state after every step, and after a start,
\* with or without a state to replace, the state held and returned is exactly the
\* requested one: nothing of a replaced state survives.
C13_StartReplaces ==
  [][/\ AtMostOneState'
     /\ (call' # call /\ call'.op = "start") =>
           /\ state' = Requested(call'.options, now)
           /\ call'.result = state'
           /\ call'.replaced = IF state = NoState THEN Null ELSE Val(state.kind)]_vars

\* a start without metadata and expiry replaced a state that a transition had made
\* a question
C13_Witness ==
  /\ call.op = "start"
  /\ call.replaced = Val("question")
  /\ call.options.metadata = Undefined
  /\ call.options.expiresInMs = Undefined
  /\ state.kind = "rename"
  /\ state.metadata = {}
  /\ state.expiresAt = Null

\* C20: a transition changes only the fields it is given: kind, expectedInput,
\* allowedCommands and metadata are retained when omitted, supplied metadata
\* replaces the whole bag, expiresInMs undefined keeps expiresAt, null clears it and
\* a number sets it to now plus the number, createdAt never changes; without an
\* active state it returns null and creates none.
C20_TransitionFrame ==
  [][(call' # call /\ call'.op = "transition") =>
       LET options == call'.options
       IN IF state = NoState
            THEN state' = NoState /\ call'.result = Null
            ELSE /\ call'.result = Val(state')
                 /\ state'.kind = IF options.kind = Undefined THEN state.kind
                                   ELSE options.kind.value
                 /\ state'.expectedInput =
                      IF options.expectedInput = Undefined THEN state.expectedInput
                      ELSE options.expectedInput.value
                 /\ options.allowedCommands = Undefined =>
                      state'.allowedCommands = state.allowedCommands
                 /\ state'.metadata =
                      IF options.metadata = Undefined THEN state.metadata
                      ELSE options.metadata.value
                 /\ state'.expiresAt =
                      IF options.expiresInMs = Undefined THEN state.expiresAt
                      ELSE IF options.expiresInMs = Null THEN Null
                      ELSE Val(now + options.expiresInMs.value)
                 /\ state'.createdAt = state.createdAt]_vars

\* a transition that gave only metadata and a null expiresInMs kept the kind and the
\* commands of the start and left no key of the old metadata
C20_Witness ==
  /\ call.op = "transition"
  /\ call.options.kind = Undefined
  /\ call.options.allowedCommands = Undefined
  /\ call.options.metadata = Val({<<"step", "2">>})
  /\ call.options.expiresInMs = Null
  /\ state.kind = "rename"
  /\ state.allowedCommands = <<Help, Status>>
  /\ state.metadata = {<<"step", "2">>}
  /\ state.expiresAt = Null
  /\ state.createdAt < now

(* ------------------------------------------------------------------ *)
(* C14 .. C19: the guard and its middleware                            *)
(* ------------------------------------------------------------------ *)
\* a guard resolution has just returned
ResolveStep == call' # call /\ call'.op = "resolve"

\* an interaction is active and its expiry, if it has one, lies ahead
ActiveNotExpired ==
  /\ state # NoState
  /\ state.expiresAt = Null \/ now < state.expiresAt.value

\* C14: while an interaction is active and not expired, a slash command is allowed
\* exactly when its normalized token is one of the state's allowedCommands, whatever
\* expectedInput is, and is otherwise blocked with command_not_allowed.
C14_CommandsByAllowList ==
  [][(ResolveStep /\ ActiveNotExpired /\ call'.decision.inputType = "command") =>
       LET decision == call'.decision
       IN /\ decision.command =
               Val(normalizeCommand(firstToken(call'.ctx.message.value)))
          /\ decision.allow <=> Contains(state.allowedCommands, decision.command.value)
          /\ decision.allow => decision.reason = Undefined
          /\ ~decision.allow => decision.reason = Val("command_not_allowed")
          /\ state' = state]_vars

\* "/Stop@MyBot now" was allowed as /stop while a callback was expected
C14_Witness ==
  /\ call.op = "resolve"
  /\ state # NoState
  /\ state.expectedInput = "callback"
  /\ call.ctx.message # Undefined
  /\ Len(call.ctx.message.value) > Len(Stop)
  /\ call.decision.allow
  /\ call.decision.command = Val(Stop)
  /\ state.allowedCommands = DEFAULT_ALLOWED_INTERACTION_COMMANDS

NonCommandRule(decision, expectedInput) ==
  /\ decision.allow <=> (expectedInput = "mixed" \/ expectedInput = decision.inputType)
  /\ decision.allow => decision.reason = Undefined
  /\ ~decision.allow =>
       decision.reason = Val(CASE expectedInput = "callback" -> "expected_callback"
                               [] expectedInput = "command" -> "expected_command"
                               [] OTHER -> "expected_text")

RenameCancelCase(ctx) ==
  /\ state.kind = "rename"
  /\ state.expectedInput = "text"
  /\ ctx.callbackQuery = Val("rename:cancel")

C17_ExpiredBlocksThenAllows ==
  [][ResolveStep =>
       /\ (/\ state # NoState
           /\ state.expiresAt # Null
           /\ now >= state.expiresAt.value) =>
             /\ ~call'.decision.allow
             /\ call'.decision.reason = Val("expired")
             /\ state' = NoState
       /\ state = NoState =>
             /\ call'.decision.allow
             /\ call'.decision.state = Null
             /\ state' = NoState]_vars

\* a resolution made at the very millisecond of the expiry blocked and cleared
C17_Witness ==
  /\ call.op = "resolve"
  /\ call.decision.reason = Val("expired")
  /\ call.decision.state.value.expiresAt = Val(now)
  /\ state = NoState

\* a resolution changes the interaction state only by clearing an expired one
GuardOnlyClearsExpired ==
  [][ResolveStep => (state' = state \/ (state' = NoState /\ ~ActiveNotExpired))]_vars

MiddlewareRule(replyExpected(_)) ==
  call.op = "middleware" =>
    /\ call.nextCalls = IF call.decision.allow THEN 1 ELSE 0
    /\ call.decision.allow => call.answered = <<>> /\ call.replied = <<>>
    /\ (~call.decision.allow /\ call.ctx.callbackQuery # Undefined) =>
         Len(call.answered) = 1 /\ call.replied = <<>>
    /\ (~call.decision.allow /\ call.ctx.callbackQuery = Undefined) =>
         /\ call.answered = <<>>
         /\ Len(call.replied) = IF replyExpected(call.ctx) THEN 1 ELSE 0
    /\ ~call.decision.allow => ~call.rejected

AnyUpdate(ctx) == TRUE
UpdateWithChat(ctx) == ctx.chat

\* C19 as stated: the middleware calls next once when the guard allows and never
\* when it blocks; a blocked callback is answered and gets no chat reply, any other
\* blocked update gets a chat reply; a failing answer or reply does not propagate.
C19_BlockAnswersOrReplies == MiddlewareRule(AnyUpdate)

\* C19: the middleware calls next once when the guard allows and never when it
\* blocks; a blocked callback is answered and gets no chat reply, any other blocked
\* update gets a chat reply if it has a chat and nothing otherwise; a failing answer
\* or reply does not propagate.
C19_BlockAnswersOrRepliesInChat == MiddlewareRule(UpdateWithChat)

\* the answer to a blocked callback failed and the middleware still resolved
C19_Witness ==
  /\ call.op = "middleware"
  /\ ~call.decision.allow
  /\ call.ctx.callbackQuery # Undefined
  /\ call.ctx.chat
  /\ Len(call.answered) = 1
  /\ ~call.sendOk
  /\ ~call.rejected

(* ------------------------------------------------------------------ *)
(* C21: the manager's state and the objects handed in and out          *)
(* ------------------------------------------------------------------ *)
\* a state as a reader sees it: each reference replaced by the content of its object
Materialize(s, h) ==
  [s EXCEPT !.metadata = {<<p[1], IF p[2] \in Refs THEN h[p[2]] ELSE p[2]>> : p \in @}]

\* what get() returns, read in full
DeepGet == IF get = Null THEN Null ELSE Val(Materialize(get.value, heap))

\* C21: a mutation by the caller of a state it was handed by start, get,
\* getSnapshot or transition (its allowedCommands, its metadata keys, an object
\* nested in its metadata) or of the options it handed to start or transition
\* leaves what the next get() returns as it was.
C21_MutationsDoNotLeak == [][call'.op = "mutate" => DeepGet' = DeepGet]_vars

(* ------------------------------------------------------------------ *)
(* C22: normalization of allowedCommands                               *)
(* ------------------------------------------------------------------ *)
Capitals == DOMAIN LowerCaseOf

\* a list is canonical: no element twice, each element lower-case, with a leading
\* slash, without "@", longer than one character
Canonical(list) ==
  /\ \A i, j \in 1..Len(list) : list[i] = list[j] => i = j
  /\ \A i \in 1..Len(list) :
       /\ Len(list[i]) > 1
       /\ list[i][1] = "/"
       /\ \A k \in 1..Len(list[i]) : list[i][k] \notin Capitals \cup {"@"}

\* the position in commands of the first command that normalizes to element
firstOccurrence(commands, element) ==
  CHOOSE i \in 1..Len(commands) :
    /\ normalizeCommand(commands[i]) = element
    /\ \A j \in 1..(i - 1) : normalizeCommand(commands[j]) # element

InOrderOfFirstOccurrence(commands, list) ==
  \A i, j \in 1..Len(list) :
    i < j => firstOccurrence(commands, list[i]) < firstOccurrence(commands, list[j])

\* the spellings of a normal command that differ from it in case, in the spaces
\* around it, in the leading slash or in a mention suffix
Mention == <<"@", "B", "o", "t">>
Spellings(element) ==
  {element, Tail(element), <<" ">> \o element \o <<" ">>, element \o Mention,
   <<" ">> \o Tail(element) \o Mention \o <<" ">>}

\* C22: the list normalizeAllowedCommands returns has no duplicates, is in the
\* order of first occurrence, each element lower-case, with a leading slash,
\* without a mention suffix and longer than one character; normalizing it again
\* returns it; and the spellings of one command normalize to the same element.
C22_NormalizationCanonical ==
  call.op = "normalizeAllowedCommands" =>
    /\ Canonical(call.result)
    /\ InOrderOfFirstOccurrence(call.commands, call.result)
    /\ normalizeAllowedCommands(Val(call.result)) = call.result
    /\ \A i \in 1..Len(call.result) :
         \A spelling \in Spellings(call.result[i]) :
           normalizeCommand(spelling) = normalizeCommand(call.result[i])

(* ------------------------------------------------------------------ *)
(* C23..C30: the SummaryAggregator                                     *)
(* ------------------------------------------------------------------ *)
\* the names of the callbacks called, in call order
namesOf(invoked) == [i \in 1..Len(invoked) |-> invoked[i].callback] \o <<>>

\* the calls of one callback among the callbacks called
callsOf(invoked, name) == SelectSeq(invoked, LAMBDA i : i.callback = name)

ToolCompleted(event) ==
  /\ event.type = "message.part.updated"
  /\ event.properties.part.type = "tool"
  /\ event.properties.part.state.status = "completed"

\* C23: between two clears, the first completed event of a tool call id calls the
\* tool callback once, for that call id, and every later completed event of the
\* call id calls no callback at all (no tool, file or file-change callback).
C23_ToolCallbackOncePerCall ==
  [][(/\ call'.op = "processEvent"
      /\ ToolCompleted(call'.event)
      /\ isCurrentSession(call'.event.properties.part.sessionID))
     => LET part == call'.event.properties.part
            tools == callsOf(call'.invoked, "tool")
        IN IF part.callID \in history.tools
             THEN call'.invoked = <<>>
             ELSE /\ Len(tools) = 1
                  /\ tools[1].args[1].callId = part.callID
                  /\ Len(callsOf(call'.invoked, "toolFile")) <= 1
                  /\ Len(callsOf(call'.invoked, "fileChange")) <= 1]_vars

\* a completed write with a file was delivered again and nothing was called
C23_Witness ==
  /\ call.op = "processEvent"
  /\ ToolCompleted(call.event)
  /\ isCurrentSession(call.event.properties.part.sessionID)
  /\ call.event.properties.part.tool = "write"
  /\ prepareToolFileContext("write", call.event.properties.part.state.input,
                            Undefined, Undefined).fileData # Null
  /\ call.event.properties.part.callID \in history.tools
  /\ call.invoked = <<>>

TextPartOf(event) ==
  /\ event.type = "message.part.updated"
  /\ event.properties.part.type = "text"
  /\ Len(event.properties.part.text) > 0

\* the elements of a sequence
Range(seq) == {seq[i] : i \in 1..Len(seq)}

\* the fragments buffered for a message, in the order they will be handed on
BufferedIn(current, pending, messageID) ==
  GetOr(current, messageID, <<>>) \o GetOr(pending, messageID, <<>>)

Buffered(messageID) == BufferedIn(currentMessageParts, pendingParts, messageID)

\* C24: a text part event with the message id and the text of an event that
\* arrived before, while the message streams, changes nothing: both buffers and
\* the hashes stay as they are, so does the text a completion would hand on, and
\* no callback is called or scheduled.
C24_RedeliveredTextIsNoOp ==
  [][(/\ call'.op = "processEvent"
      /\ TextPartOf(call'.event)
      /\ isCurrentSession(call'.event.properties.part.sessionID)
      /\ call'.event.properties.part.text
            \in Range(GetOr(history.texts, call'.event.properties.part.messageID, <<>>)))
     => /\ UNCHANGED <<currentMessageParts, pendingParts, partHashes, messageInfos,
                       messageCount, typingTimer, lastUpdated, immediates>>
        /\ lastPartOf(BufferedIn(currentMessageParts', pendingParts',
                                 call'.event.properties.part.messageID)) =
             lastPartOf(Buffered(call'.event.properties.part.messageID))
        /\ call'.invoked = <<>>
        /\ call'.scheduled = <<>>]_vars

\* the text "c" arrived a second time for a streaming assistant message that has
\* buffered it
C24_Witness ==
  /\ call.op = "processEvent"
  /\ TextPartOf(call.event)
  /\ isCurrentSession(call.event.properties.part.sessionID)
  /\ LET texts == GetOr(history.texts, call.event.properties.part.messageID, <<>>)
     IN /\ Len(texts) >= 2
        /\ texts[Len(texts)] = call.event.properties.part.text
        /\ call.event.properties.part.text \in Range(SubSeq(texts, 1, Len(texts) - 1))
  /\ Has(currentMessageParts, call.event.properties.part.messageID)
  /\ call.event.properties.part.text
       \in Range(currentMessageParts[call.event.properties.part.messageID])

\* a message.updated of an assistant message with a completion time, for the
\* current session
Completion(event) ==
  /\ event.type = "message.updated"
  /\ event.properties.info.role = "assistant"
  /\ event.properties.info.completed

\* the fragments buffered for a message whose message.updated came before all of
\* its text parts: each text part goes through the text branch of
\* handleMessagePartUpdated with the role known
RECURSIVE updatedFirst(_, _, _)
updatedFirst(texts, parts, hashes) ==
  IF texts = <<>> THEN parts
  ELSE IF isDuplicate(hashes, hashString(Head(texts)))
    THEN updatedFirst(Tail(texts), parts, hashes)
    ELSE updatedFirst(Tail(texts), Append(parts, Head(texts)),
                      hashes \cup {hashString(Head(texts))})

\* the texts the completion callback was called with
completionTexts(invoked) ==
  [i \in 1..Len(callsOf(invoked, "complete")) |-> callsOf(invoked, "complete")[i].args[2]]
    \o <<>>

\* C25: wherever the message.updated events of a message fall among its text
\* parts, the completion hands the completion callback the text it hands on when
\* message.updated comes first: the last fragment of the text parts in their order
\* of arrival (and nothing when there is none).
C25_PartsBeforeMessageUpdatedKept ==
  [][(/\ call'.op = "processEvent"
      /\ Completion(call'.event)
      /\ isCurrentSession(call'.event.properties.info.sessionID))
     => LET texts == GetOr(history.texts, call'.event.properties.info.id, <<>>)
            expected == updatedFirst(texts, <<>>, {})
        IN completionTexts(call'.invoked) =
             IF expected = <<>> THEN <<>> ELSE <<expected[Len(expected)]>>]_vars

\* the first message.updated of the message is its completion, it found two
\* fragments that had arrived before it and handed on the second one
C25_Witness ==
  /\ call.op = "processEvent"
  /\ Completion(call.event)
  /\ namesOf(call.scheduled) = <<"thinking">>
  /\ Len(callsOf(call.invoked, "complete")) = 1
  /\ LET seen == callsOf(call.invoked, "complete")[1].seen.currentMessageParts
     IN /\ Len(seen[call.event.properties.info.id]) = 2
        /\ completionTexts(call.invoked) = <<seen[call.event.properties.info.id][2]>>

\* C26: a completed message.updated of an assistant message calls the token
\* callback (when the event has token counters) and then the completion callback
\* (when a fragment is buffered), both inside processEvent and while the message is
\* still in messages, currentMessageParts and partHashes; after the event the
\* message id is in none of the three.
C26_TokensThenCompleteThenTeardown ==
  [][(/\ call'.op = "processEvent"
      /\ Completion(call'.event)
      /\ isCurrentSession(call'.event.properties.info.sessionID))
     => LET info == call'.event.properties.info
        IN /\ namesOf(call'.invoked) =
                (IF Registered("tokens") /\ info.tokens THEN <<"tokens">> ELSE <<>>)
                \o (IF Buffered(info.id) # <<>> THEN <<"complete">> ELSE <<>>)
           /\ \A i \in 1..Len(call'.invoked) :
                /\ Has(call'.invoked[i].seen.messages, info.id)
                /\ Has(call'.invoked[i].seen.currentMessageParts, info.id)
                /\ Has(partHashes, info.id) => Has(call'.invoked[i].seen.partHashes, info.id)
           /\ namesOf(call'.scheduled) \in {<<>>, <<"thinking">>}
           /\ ~Has(messageInfos', info.id)
           /\ ~Has(currentMessageParts', info.id)
           /\ ~Has(partHashes', info.id)]_vars

\* a completion with token counters and a buffered fragment: tokens, then complete,
\* both with the hashes of the message still kept, and the message is gone
C26_Witness ==
  /\ call.op = "processEvent"
  /\ Completion(call.event)
  /\ namesOf(call.invoked) = <<"tokens", "complete">>
  /\ Has(call.invoked[1].seen.partHashes, call.event.properties.info.id)
  /\ ~Has(messageInfos, call.event.properties.info.id)
  /\ ~Has(partHashes, call.event.properties.info.id)

\* C27: a completion of a message with at least one buffered fragment calls the
\* completion callback once, with the current session id and the last buffered
\* fragment.
C27_CompletionHandsLastFragment ==
  [][(/\ call'.op = "processEvent"
      /\ Completion(call'.event)
      /\ isCurrentSession(call'.event.properties.info.sessionID)
      /\ Buffered(call'.event.properties.info.id) # <<>>)
     => LET buffered == Buffered(call'.event.properties.info.id)
            completions == callsOf(call'.invoked, "complete")
        IN /\ Len(completions) = 1
           /\ completions[1].args = <<currentSessionId.value, buffered[Len(buffered)]>>]_vars

\* a completion of a message with two different buffered fragments
C27_Witness ==
  /\ call.op = "processEvent"
  /\ Completion(call.event)
  /\ Len(callsOf(call.invoked, "complete")) = 1
  /\ LET completion == callsOf(call.invoked, "complete")[1]
         parts == completion.seen.currentMessageParts[call.event.properties.info.id]
     IN /\ Len(parts) = 2
        /\ completion.args = <<"s1", parts[2]>>
        /\ parts[1] # parts[2]

\* the session id an event carries
sessionOf(event) ==
  IF event.type = "message.updated" THEN event.properties.info.sessionID
  ELSE IF event.type = "message.part.updated" THEN event.properties.part.sessionID
  ELSE event.properties.sessionID

\* the fields of the aggregator, its timer and the callbacks that wait
AggregatorState ==
  <<currentSessionId, currentMessageParts, pendingParts, messageInfos, messageCount,
    lastUpdated, processedToolStates, typingTimer, partHashes, immediates>>

\* C28: a message.updated, message.part.updated, session.idle, session.compacted,
\* question.asked, session.diff or permission.asked event whose session id is not
\* the current session changes no field of the aggregator, neither starts nor
\* stops the typing timer, and calls and schedules no callback.
C28_OtherSessionIgnored ==
  [][(/\ call'.op = "processEvent"
      /\ call'.event.type \in {"message.updated", "message.part.updated", "session.idle",
                                "session.compacted", "question.asked", "session.diff",
                                "permission.asked"}
      /\ currentSessionId # Val(sessionOf(call'.event)))
     => /\ UNCHANGED AggregatorState
        /\ call'.invoked = <<>>
        /\ call'.scheduled = <<>>]_vars

\* session.idle of session s2 arrived while s1 is current, has a message that
\* streams and the typing timer is set, at a later time than the last update
C28_Witness ==
  /\ call.op = "processEvent"
  /\ call.event.type = "session.idle"
  /\ sessionOf(call.event) = "s2"
  /\ currentSessionId = Val("s1")
  /\ typingTimer.set
  /\ Has(currentMessageParts, "m1")
  /\ lastUpdated < now

\* C29: setSession with an id that is not the current one empties messages, both
\* part buffers, the hashes and the tool markers, resets the message counter,
\* stops the typing timer, calls the cleared callback once, while no session is
\* current, and leaves the id current; setSession with the current id changes
\* nothing and calls nothing.
C29_SetSessionWipesOnChange ==
  [][call'.op = "setSession"
     => IF currentSessionId # Val(call'.sessionId)
          THEN /\ currentMessageParts' = EmptyMap
               /\ pendingParts' = EmptyMap
               /\ messageInfos' = EmptyMap
               /\ partHashes' = EmptyMap
               /\ processedToolStates' = {}
               /\ messageCount' = 0
               /\ typingTimer'.running = 0
               /\ namesOf(call'.invoked) =
                    IF Registered("cleared") THEN <<"cleared">> ELSE <<>>
               /\ \A i \in 1..Len(call'.invoked) :
                    /\ call'.invoked[i].seen.currentSessionId = Null
                    /\ DOMAIN call'.invoked[i].seen.currentMessageParts = {}
               /\ currentSessionId' = Val(call'.sessionId)
          ELSE /\ UNCHANGED AggregatorState
               /\ call'.invoked = <<>>]_vars

\* setSession("s2") came while s1 had opened a message, whose thinking callback
\* still waits: the cleared callback was called and nothing of s1 is left
C29_Witness ==
  /\ call.op = "setSession"
  /\ call.sessionId = "s2"
  /\ namesOf(call.invoked) = <<"cleared">>
  /\ currentSessionId = Val("s2")
  /\ \E i \in 1..Len(immediates) :
       immediates[i].callback = "thinking" /\ immediates[i].args = <<"s1">>
  /\ DOMAIN currentMessageParts = {}

\* the callbacks that run in a later turn of the event loop
DeferredCallbacks ==
  {"thinking", "question", "permission", "sessionDiff", "sessionCompacted", "questionError"}

\* the callback an event of the current session hands to setImmediate
deferredBy(event) ==
  IF event.type = "message.updated"
    THEN IF event.properties.info.role = "assistant"
            /\ ~Has(currentMessageParts, event.properties.info.id)
           THEN <<"thinking">> ELSE <<>>
  ELSE IF event.type = "message.part.updated"
    THEN IF event.properties.part.type = "tool" /\ event.properties.part.tool = "question"
            /\ event.properties.part.state.status = "error"
           THEN <<"questionError">> ELSE <<>>
  ELSE IF event.type = "question.asked" THEN <<"question">>
  ELSE IF event.type = "permission.asked" THEN <<"permission">>
  ELSE IF event.type = "session.diff" THEN <<"sessionDiff">>
  ELSE IF event.type = "session.compacted" THEN <<"sessionCompacted">>
  ELSE <<>>

C31_OneHeartbeatStoppedAtEnd ==
  [][/\ typingTimer'.running <= 1
     /\ typingTimer'.set <=> typingTimer'.running = 1
     /\ (/\ call'.op = "processEvent"
         /\ Completion(call'.event)
         /\ currentSessionId = Val(sessionOf(call'.event))
         /\ DOMAIN currentMessageParts \subseteq {call'.event.properties.info.id})
        => typingTimer'.running = 0
     /\ (/\ call'.op = "processEvent"
         /\ call'.event.type = "session.idle"
         /\ currentSessionId = Val(sessionOf(call'.event)))
        => typingTimer'.running = 0
     /\ call'.op = "clear" => typingTimer'.running = 0]_vars

\* the second of two messages that streamed at the same time has completed: the
\* timer was started once for the two and is stopped
C31_Witness ==
  /\ call.op = "processEvent"
  /\ Completion(call.event)
  /\ currentSessionId = Val(sessionOf(call.event))
  /\ messageCount = 2
  /\ DOMAIN currentMessageParts = {}
  /\ lastUpdated = 0
  /\ typingTimer = NoTypingTimer

\* C32: a tool part of the question tool with status error, for the current
\* session, hands the question-failed callback to setImmediate and nothing else,
\* calls no callback (no tool, file or file-change notification) and marks no tool
\* call as processed.
C32_QuestionErrorSchedulesFailure ==
  [][(/\ call'.op = "processEvent"
      /\ call'.event.type = "message.part.updated"
      /\ call'.event.properties.part.type = "tool"
      /\ call'.event.properties.part.tool = "question"
      /\ call'.event.properties.part.state.status = "error"
      /\ currentSessionId = Val(sessionOf(call'.event))
      /\ Registered("questionError"))
     => /\ namesOf(call'.scheduled) = <<"questionError">>
        /\ immediates' = Append(immediates, call'.scheduled[1])
        /\ call'.invoked = <<>>
        /\ UNCHANGED processedToolStates]_vars

\* the question tool failed and the question-failed callback waits for its turn
C32_Witness ==
  /\ call.op = "processEvent"
  /\ call.event.type = "message.part.updated"
  /\ call.event.properties.part.tool = "question"
  /\ call.event.properties.part.state.status = "error"
  /\ call.invoked = <<>>
  /\ Len(immediates) > 0
  /\ immediates[Len(immediates)].callback = "questionError"

\* the paths a completed apply_patch names for its file: in its input, in the
\* filediff of its metadata, in its title
pathsOf(toolState) ==
  {stringOr(field(toolState.input, "filePath")), stringOr(field(toolState.input, "path")),
   stringOr(field(field(toolState.metadata, "filediff"), "file")),
   IF toolState.title = Undefined THEN "" ELSE toolState.title.value.updated} \ {""}

\* a completed tool part comes without a file: it names no path, has no text for
\* the file, or the text is too large
WithoutFile(part) ==
  LET toolState == part.state
  IN CASE part.tool = "write" ->
            \/ stringOr(field(toolState.input, "filePath")) = ""
            \/ field(toolState.input, "content") = Undefined
            \/ toolState.input.value.content.value.oversized
       [] part.tool = "edit" ->
            \/ stringOr(field(field(toolState.metadata, "filediff"), "file")) = ""
            \/ field(toolState.metadata, "diff") = Undefined
            \/ toolState.metadata.value.diff.value.oversized
       [] part.tool = "apply_patch" ->
            \/ pathsOf(toolState) = {}
            \/ /\ field(toolState.metadata, "diff") = Undefined
               /\ field(toolState.input, "patchText") = Undefined
            \/ /\ field(toolState.metadata, "diff") # Undefined
               /\ toolState.metadata.value.diff.value.oversized
            \/ /\ field(toolState.metadata, "diff") = Undefined
               /\ field(toolState.input, "patchText") # Undefined
               /\ toolState.input.value.patchText.value.oversized
       [] OTHER -> TRUE

\* C33: a completed tool event that is handled (the first of its call id) calls
\* the file callback, when one is set, exactly if the tool notification of the
\* event says hasFileAttachment, and after the tool callback; the notification
\* says hasFileAttachment exactly if the part comes with a file, so a part with
\* no path or with a text that is too large has a notification without
\* attachment and no file callback.
C33_FileCallbackIffAttachment ==
  [][(/\ call'.op = "processEvent"
      /\ ToolCompleted(call'.event)
      /\ currentSessionId = Val(sessionOf(call'.event))
      /\ call'.event.properties.part.callID \notin history.tools)
     => LET part == call'.event.properties.part
            names == namesOf(call'.invoked)
            tools == callsOf(call'.invoked, "tool")
            files == callsOf(call'.invoked, "toolFile")
        IN /\ Len(tools) = 1
           /\ names[1] = "tool"
           /\ tools[1].args[1].hasFileAttachment <=> ~WithoutFile(part)
           /\ Len(files) <= 1
           /\ Registered("toolFile") =>
                (Len(files) = 1 <=> tools[1].args[1].hasFileAttachment)
           /\ Len(files) = 1 => /\ names[2] = "toolFile"
                                /\ files[1].args[1].hasFileAttachment
           /\ WithoutFile(part) => files = <<>>]_vars

\* an oversized write was handled: a tool notification without attachment, no
\* file callback, and the file change
C33_Witness ==
  /\ call.op = "processEvent"
  /\ ToolCompleted(call.event)
  /\ call.event.properties.part.tool = "write"
  /\ pathsOf(call.event.properties.part.state) # {}
  /\ WithoutFile(call.event.properties.part)
  /\ Registered("toolFile")
  /\ namesOf(call.invoked) = <<"tool", "fileChange">>
  /\ ~call.invoked[1].args[1].hasFileAttachment

\* C34: after setIntervalSeconds has switched to immediate mode, the items of
\* every session still reach sendText / sendFile in the order they were
\* enqueued: an item queued before the switch is sent before an item of its
\* session enqueued after it.
C34_ImmediateSwitchKeepsOrder ==
  (intervalChanged /\ intervalSeconds = 0) =>
    \A s \in Sessions :
      LET ts == SentTagsOf(sent, s)
      IN \A i, j \in 1..Len(ts) : i < j => TagIndex(ts[i]) < TagIndex(ts[j])

\* C35: when the state has an expiresAt that the clock has reached, a command
\* that is one of the state's allowedCommands is blocked with expired, not
\* allowed, and the resolution leaves no state.
C35_ExpiryBeforeCommandCheck ==
  [][(/\ ResolveStep
      /\ state # NoState
      /\ state.expiresAt # Null
      /\ now >= state.expiresAt.value
      /\ call'.decision.inputType = "command"
      /\ Contains(state.allowedCommands, call'.decision.command.value)) =>
       /\ ~call'.decision.allow
       /\ call'.decision.reason = Val("expired")
       /\ call'.decision.command = Val(normalizeCommand(firstToken(call'.ctx.message.value)))
       /\ state' = NoState]_vars

\* /status came for an expired interaction that lists /status: blocked with
\* expired, and the state is gone
C35_Witness ==
  /\ call.op = "resolve"
  /\ call.ctx.message = Val(Status)
  /\ call.decision.inputType = "command"
  /\ call.decision.state # Null
  /\ Contains(call.decision.state.value.allowedCommands, call.decision.command.value)
  /\ call.decision.state.value.expiresAt # Null
  /\ call.decision.state.value.expiresAt.value <= now
  /\ call.decision.reason = Val("expired")
  /\ state = NoState

\* C36: the completion of an assistant message hands the completion callback the
\* text of the text part of the message that arrived last, also when an earlier
\* part of the message had the same text.
C36_CompletionHandsLatestSnapshot ==
  [][(/\ call'.op = "processEvent"
      /\ Completion(call'.event)
      /\ currentSessionId = Val(sessionOf(call'.event))
      /\ Registered("complete")
      /\ GetOr(history.texts, call'.event.properties.info.id, <<>>) # <<>>)
     => LET texts == history.texts[call'.event.properties.info.id]
        IN completionTexts(call'.invoked) = <<texts[Len(texts)]>>]_vars

\* C37: between two clears the completion callback is called at most once for a
\* message id: a completed message.updated of a message whose completion has
\* been handed on calls it no more, also when the text parts of the message
\* arrive again before it.
C37_CompletionOncePerMessage ==
  [][(/\ call'.op = "processEvent"
      /\ Completion(call'.event)
      /\ currentSessionId = Val(sessionOf(call'.event)))
     => /\ Len(callsOf(call'.invoked, "complete")) <= 1
        /\ call'.event.properties.info.id \in history.completed
             => callsOf(call'.invoked, "complete") = <<>>]_vars

\* every accepted item was handed to sendText / sendFile, was dropped as stale or
\* was deleted from a queue by a clear
AllSettled == AcceptedTags = SentTagSet \cup DroppedTags \cup cleared

\* no session has a queue, a timer or a task-chain entry
AllEmpty ==
  \A s \in Sessions : queues[s] = <<>> /\ timers[s] = NoTimer /\ sessionTasks[s] = <<>>

\* C38: when timers fire and every send settles, no accepted item stays queued
\* forever: each one is in the end handed to sendText / sendFile or dropped, and
\* every session returns to the empty state (no queue, no timer, no chain entry)
C38_NoItemQueuedForever == <>[](AllSettled /\ AllEmpty)

\* items were accepted in timed mode, one was handed to the sender and one was
\* deleted by a clear, and the sessions are empty again
C38_Witness ==
  /\ accepted = MaxItems
  /\ intervalSeconds > 0
  /\ SentTagSet # {} /\ cleared # {}
  /\ AllSettled /\ AllEmpty

\* C39: a session has at most one pending flush timer, a timer is pending for
\* a session only while the queue of the session is non-empty, and no timer
\* survives a flush that takes the queue, a clearSession of its session or a
\* clearAll
C39_TimerOnlyWhileQueued ==
  [][\A s \in Sessions :
       /\ timers'[s] \in {NoTimer} \cup 0..(Max(IntervalInputs) * 1000)
       /\ timers'[s] # NoTimer => queues'[s] # <<>>
       /\ (queues[s] # <<>> /\ queues'[s] = <<>>) => timers'[s] = NoTimer
       /\ (generation' # generation /\ lastClear' \in {s, "all"}) => timers'[s] = NoTimer]_vars

\* both sessions had a queue and a pending timer, and a clearSession of the first
\* cancelled its timer and left the timer of the second pending
C39_Witness ==
  /\ lastClear = "s1"
  /\ cleared = {"a"}
  /\ timers["s1"] = NoTimer /\ queues["s1"] = <<>>
  /\ timers["s2"] # NoTimer /\ queues["s2"] # <<>>

\* the callbacks of the claim
TeardownCallbacks == {"thinking", "question", "permission", "sessionDiff"}

\* a callback of the name waits for its turn of the event loop
Waiting(name) == \E k \in 1..Len(immediates) : immediates[k].callback = name

\* C40: a question.asked, permission.asked, session.diff or first assistant
\* message.updated event of the current session hands its callback to
\* setImmediate once; clear() and setSession cancel no callback that waits; a
\* turn of the event loop calls the oldest waiting callback once, with the
\* arguments of its event; and every callback that waits is called in the end.
C40_TeardownKeepsDeferred ==
  /\ [][/\ (/\ call'.op = "processEvent"
            /\ isCurrentSession(sessionOf(call'.event))
            /\ deferredBy(call'.event) # <<>>)
             => (/\ namesOf(call'.scheduled) = deferredBy(call'.event)
                 /\ immediates' = Append(immediates, call'.scheduled[1]))
        /\ (call'.op \in {"clear", "setSession"}) => (immediates' = immediates)
        /\ (call'.op = "immediate")
             => (/\ immediates # <<>>
                 /\ immediates' = Tail(immediates)
                 /\ Len(call'.invoked) = 1
                 /\ call'.invoked[1].callback = Head(immediates).callback
                 /\ call'.invoked[1].args = Head(immediates).args)]_vars
  /\ \A name \in TeardownCallbacks :
       Waiting(name) ~> (call.op = "immediate" /\ namesOf(call.invoked) = <<name>>)

\* the question callback is called after a clear() that ran between question.asked
\* and the turn of the callback: it finds no current session
C40_Witness ==
  /\ call.op = "immediate"
  /\ namesOf(call.invoked) = <<"question">>
  /\ call.invoked[1].seen.currentSessionId = Null
  /\ Waiting("thinking")

====
